---- MODULE Spec2Model ----
(***************************************************************************)
(* Model of the stirred tank unit operation (CSTRModel) of CADET:          *)
(* src/src/libcadet/model/StirredTankModel.cpp.                            *)
(*                                                                         *)
(* Numbers.  The code computes in double; the model computes exactly in    *)
(* the rationals, a rational being a normalised pair <<num, den>> with     *)
(* den > 0, so that two rationals are equal iff the pairs are equal.       *)
(* An AD value (cadet::active) is a record [v |-> value, d |-> derivative  *)
(* per AD direction]; a double is the same record with no direction.       *)
(* Vectors and matrices are indexed from 0 as in the code.                 *)
(***************************************************************************)
EXTENDS Integers, Sequences, FiniteSets, TLC

VARIABLES
    nComp,              \* _nComp
    nBound,             \* _nBound[0 .. _nComp-1]
    boundOffset,        \* _boundOffset[0 .. _nComp-1]
    strideBound,        \* _strideBound
    analyticJac,        \* _analyticJac
    porosity,           \* _porosity (value)
    flowRateFilter,     \* _flowRateFilter (values, one per section or one)
    curFlowRateFilter,  \* _curFlowRateFilter (value)
    flowRateIn,         \* _flowRateIn (value)
    flowRateOut,        \* _flowRateOut (value)
    jac,                \* _jac: dense matrix, numPureDofs x numPureDofs
    jacFact,            \* _jacFact: the matrix handed to the factorization
    jacFactState,       \* "none" | "ok" | "failed": what _jacFact holds
    factorizeJac,       \* _factorizeJac
    configured,         \* configure() has run
    lastJac,            \* history: _jac as left by the last Jacobian-updating residual()
    sensParams,         \* _sensParams: the registered parameter storage locations
    paramAd,            \* AD derivatives of the parameter storage locations, per direction
    bindingHasParam,    \* the configured binding model exposes a parameter
    rows,               \* SparseMatrix::_rows
    cols,               \* SparseMatrix::_cols
    values,             \* SparseMatrix::_values
    curIdx,             \* SparseMatrix::_curIdx
    op,                 \* history: name of the last operation
    args,               \* history: the inputs of the last operation
    ret                 \* history: the outputs of the last operation

cfgVars == <<nComp, nBound, boundOffset, strideBound, analyticJac, porosity,
             flowRateFilter, configured>>
flowVars == <<flowRateIn, flowRateOut>>
jacVars == <<jac, jacFact, jacFactState, factorizeJac, lastJac>>
sensVars == <<sensParams, paramAd, bindingHasParam>>
sparseVars == <<rows, cols, values, curIdx>>
vars == <<nComp, nBound, boundOffset, strideBound, analyticJac, porosity,
          flowRateFilter, curFlowRateFilter, flowRateIn, flowRateOut,
          jac, jacFact, jacFactState, factorizeJac, configured, lastJac,
          sensParams, paramAd, bindingHasParam, rows, cols, values, curIdx,
          op, args, ret>>

---------------------------------------------------------------------------
(* Bounds of the model *)

MaxDirs == 2        \* AD directions a parameter can be seeded in: 0 .. MaxDirs - 1
MaxComp == 2        \* components: NCOMP in 1 .. MaxComp
MaxParams == 2      \* sensitive parameters (AD directions) of a sensitivity call
MaxStride == 2      \* bound states in total: NBOUND[0] + ... + NBOUND[NCOMP-1] <= MaxStride

---------------------------------------------------------------------------
(* Exact arithmetic standing for double *)

Abs(x) == IF x < 0 THEN -x ELSE x

RECURSIVE Gcd(_, _)
Gcd(a, b) == IF b = 0 THEN a ELSE Gcd(b, a % b)

Norm(n, d) ==
    LET s == IF d < 0 THEN -1 ELSE 1
        g == Gcd(Abs(n), Abs(d))
    IN  <<(s * n) \div g, (s * d) \div g>>

R(n) == <<n, 1>>
Zero == R(0)
One == R(1)
Two == R(2)
RAdd(a, b) ==
    IF a[2] = 1 /\ b[2] = 1 THEN <<a[1] + b[1], 1>>
    ELSE Norm(a[1] * b[2] + b[1] * a[2], a[2] * b[2])
RNeg(a) == <<-a[1], a[2]>>
RSub(a, b) == RAdd(a, RNeg(b))
RMul(a, b) ==
    IF a[2] = 1 /\ b[2] = 1 THEN <<a[1] * b[1], 1>>
    ELSE Norm(a[1] * b[1], a[2] * b[2])
RDiv(a, b) == Norm(a[1] * b[2], a[2] * b[1])      \* b # Zero

(* cadet::active: value and one derivative per AD direction *)
DConst(x, dirs) == [v |-> x, d |-> [k \in dirs |-> Zero]]
DAdd(a, b) == [v |-> RAdd(a.v, b.v),
               d |-> [k \in DOMAIN a.d |-> RAdd(a.d[k], b.d[k])]]
DNeg(a) == [v |-> RNeg(a.v), d |-> [k \in DOMAIN a.d |-> RNeg(a.d[k])]]
DMul(a, b) == [v |-> RMul(a.v, b.v),
               d |-> [k \in DOMAIN a.d |->
                        RAdd(RMul(a.d[k], b.v), RMul(a.v, b.d[k]))]]

---------------------------------------------------------------------------
(* State layout *)

numDofs == 2 * nComp + strideBound + 1
numPureDofsWithVolumeDropped == nComp + strideBound
numPureDofs == nComp + strideBound + 1
requiredADdirs == nComp + strideBound + 1
VolIdx == 2 * nComp + strideBound          \* index of the volume DOF in y
DofIdx == 0 .. numDofs - 1
PureIdx == 0 .. numPureDofs - 1

ZeroMatrix(n) == [rc \in (0 .. n - 1) \X (0 .. n - 1) |-> Zero]
ZeroVector(n) == [k \in 0 .. n - 1 |-> Zero]

(* invBeta = 1.0 / _porosity - 1.0 *)
InvBeta == RSub(RDiv(One, porosity), One)

RECURSIVE SumTo(_, _)
(* f[0] + ... + f[n-1], accumulated from 0.0 in index order *)
SumTo(f, n) == IF n = 0 THEN Zero ELSE RAdd(SumTo(f, n - 1), f[n - 1])

---------------------------------------------------------------------------
(* External collaborators.  The binding submodel is the no-op binding      *)
(* model that configure() installs when no ADSORPTION_MODEL is given; the  *)
(* dense matrix and the dense AD seeding and extraction are the contracts  *)
(* the model relies on.                                                    *)

(* IBindingModel::residual of the no-op binding model: writes nothing *)
BindingResidual(res) == res

(* IBindingModel::analyticJacobian of the no-op binding model *)
BindingAnalyticJacobian(mat) == mat

(* IBindingModel::jacobianAddDiscretized of the no-op binding model *)
BindingJacobianAddDiscretized(mat) == mat

(* DenseMatrix::multiplyVector(x, alpha, beta, y): y := alpha*A*x + beta*y, *)
(* x and y indexed over the rows and columns of A                          *)
MatMultiplyVector(mat, n, x, alpha, beta, yv) ==
    [r \in 0 .. n - 1 |->
        RAdd(RMul(alpha, SumTo([c \in 0 .. n - 1 |-> RMul(mat[<<r, c>>], x[c])], n)),
             RMul(beta, yv[r]))]

(* ad::prepareAdVectorSeedsForDenseMatrix(adY + _nComp, adDirOffset, rows,  *)
(* cols) followed by ad::copyToAd(y, adY, numDofs()): pure DOF r carries a  *)
(* unit derivative in direction adDirOffset + r, inlet DOFs carry none      *)
SeededAdY(y, adDirOffset, dirs) ==
    [k \in DofIdx |->
        [v |-> y[k],
         d |-> [dir \in dirs |->
                  IF k >= nComp /\ dir = adDirOffset + (k - nComp)
                  THEN One ELSE Zero]]]

(* ad::extractDenseJacobianFromAd(adRes + _nComp, adDirOffset, _jac) *)
ExtractDenseJacobianFromAd(adRes, adDirOffset) ==
    [rc \in PureIdx \X PureIdx |-> adRes[nComp + rc[1]].d[adDirOffset + rc[2]]]

(* ad::copyFromAd *)
CopyFromAd(adVec) == [k \in DOMAIN adVec |-> adVec[k].v]

(* a double vector as an AD vector without derivatives (also ad::resetAd   *)
(* when the vector is all 0.0)                                             *)
LiftVector(vec, dirs) == [k \in DOMAIN vec |-> DConst(vec[k], dirs)]

---------------------------------------------------------------------------
(* configure / reconfigure / setFlowRates / section transition *)

(* an offset table that would hold the counts instead of their prefix sums *)
OffsetAtNotAccumulated(nb, i) == IF i = 0 THEN 0 ELSE nb[i - 1]

RECURSIVE OffsetAt(_, _)
(* _boundOffset[0] = 0; _boundOffset[i] = _boundOffset[i-1] + _nBound[i-1] *)
OffsetAt(nb, i) == IF i = 0 THEN 0 ELSE OffsetAt(nb, i - 1) + nb[i - 1]

(* strideBound = _boundOffset[_nComp-1] + _nBound[_nComp-1] *)
StrideOf(nc, nb) == OffsetAt(nb, nc - 1) + nb[nc - 1]

(* the storage locations of parameters: _porosity, the elements of        *)
(* _flowRateFilter, and the parameter of the binding model if it has one   *)
PorosityLoc == <<"POROSITY", 0>>
FilterLoc(k) == <<"FLOWRATE_FILTER", k>>
BindingLoc == <<"BINDING", 0>>
NoParam == <<"NONE", 0>>
ParamLocations == {PorosityLoc, FilterLoc(0), BindingLoc}
AdDirections == 0 .. MaxDirs - 1

(* the derivatives of an active constructed or assigned from a double *)
NoDerivative == [dir \in AdDirections |-> Zero]

(* reconfigure(): hasFilter = FLOWRATE_FILTER exists, hasPorosity = POROSITY exists; *)
(* _porosity is assigned a double and _flowRateFilter is cleared and read  *)
(* again, _sensParams is not touched                                       *)
ReconfigureEffect(hasFilter, filter, hasPorosity, por) ==
    /\ curFlowRateFilter' = Zero
    /\ flowRateFilter' = IF hasFilter THEN filter ELSE <<>>
    /\ porosity' = IF hasPorosity THEN por ELSE One
    /\ paramAd' = [l \in ParamLocations |->
                      IF l = BindingLoc THEN paramAd[l] ELSE NoDerivative]
    /\ UNCHANGED sensParams

(* configure(): nc = NCOMP, nb = NBOUND when hasNBound, aj = USE_ANALYTIC_JACOBIAN *)
Configure(nc, hasNBound, nb, aj, hasFilter, filter, hasPorosity, por, hasBindingParam) ==
    /\ ~configured
    /\ bindingHasParam' = hasBindingParam
    /\ LET cnt == IF hasNBound THEN nb ELSE [i \in 0 .. nc - 1 |-> 0]
           nVar == nc + StrideOf(nc, cnt) + 1
       IN  /\ nComp' = nc
           /\ nBound' = cnt
           /\ boundOffset' = [i \in 0 .. nc - 1 |-> OffsetAt(cnt, i)]
           /\ strideBound' = StrideOf(nc, cnt)
           /\ jac' = ZeroMatrix(nVar)
           /\ jacFact' = ZeroMatrix(nVar)
    /\ analyticJac' = aj
    /\ ReconfigureEffect(hasFilter, filter, hasPorosity, por)
    /\ configured' = TRUE
    /\ op' = "configure"
    /\ args' = [nc |-> nc, hasNBound |-> hasNBound, nb |-> nb]
    /\ ret' = [code |-> 1]
    /\ UNCHANGED <<sparseVars, flowVars, jacFactState, factorizeJac, lastJac>>

Reconfigure(hasFilter, filter, hasPorosity, por) ==
    /\ configured
    /\ ReconfigureEffect(hasFilter, filter, hasPorosity, por)
    /\ op' = "reconfigure"
    /\ args' = [hasFilter |-> hasFilter]
    /\ ret' = [code |-> 1]
    /\ UNCHANGED <<nComp, nBound, boundOffset, strideBound, analyticJac,
                   configured, flowVars, jacVars, bindingHasParam, sparseVars>>

SetFlowRates(in, out) ==
    /\ flowRateIn' = in
    /\ flowRateOut' = out
    /\ op' = "setFlowRates"
    /\ args' = [in |-> in, out |-> out]
    /\ ret' = [code |-> 0]
    /\ UNCHANGED <<sensVars, sparseVars, cfgVars, curFlowRateFilter, jacVars>>

NotifyDiscontinuousSectionTransition(secIdx) ==
    /\ configured
    /\ Len(flowRateFilter) > 1 => secIdx < Len(flowRateFilter)
    /\ curFlowRateFilter' =
          IF Len(flowRateFilter) > 1 THEN flowRateFilter[secIdx + 1]
          ELSE IF Len(flowRateFilter) = 1 THEN flowRateFilter[1]
          ELSE curFlowRateFilter
    /\ op' = "notifyDiscontinuousSectionTransition"
    /\ args' = [secIdx |-> secIdx]
    /\ ret' = [code |-> 0]
    /\ UNCHANGED <<sensVars, sparseVars, cfgVars, flowVars, jacVars>>

---------------------------------------------------------------------------
(* applyInitialCondition *)

(* applyInitialCondition(vecStateY, vecStateYdot): both filled with 0.0 *)
ApplyInitialConditionZero ==
    /\ configured
    /\ ret' = [threw |-> FALSE, y |-> ZeroVector(numDofs), yDot |-> ZeroVector(numDofs),
               oobRead |-> FALSE]
    /\ op' = "applyInitialConditionZero"
    /\ args' = <<>>
    /\ UNCHANGED <<sensVars, sparseVars, cfgVars, curFlowRateFilter, flowVars, jacVars>>

(* element k (from 0) of a std::vector holding the sequence data; reading  *)
(* past its end is undefined and yields junk                               *)
ReadAt(data, k, junk) == IF k < Len(data) THEN data[k + 1] ELSE junk

(* vecStateY and vecStateYdot after applyInitialCondition(paramProvider,   *)
(* vecStateY, vecStateYdot), or the exception it throws                    *)
ApplyInitialConditionResult(a, junk) ==
    IF a.hasInitState
    THEN [threw |-> FALSE,
          y |-> [k \in DofIdx |-> ReadAt(a.initState, k, junk)],
          yDot |-> IF Len(a.initState) >= 2 * numDofs
                   THEN [k \in DofIdx |-> a.initState[numDofs + k + 1]]
                   ELSE a.yDotOld,
          oobRead |-> Len(a.initState) < numDofs]
    ELSE IF Len(a.initC) < nComp
    THEN [threw |-> TRUE, y |-> a.yOld, yDot |-> a.yDotOld, oobRead |-> FALSE]
    ELSE [threw |-> FALSE,
          y |-> [k \in DofIdx |->
                   IF k < nComp THEN a.yOld[k]
                   ELSE IF k < 2 * nComp THEN a.initC[k - nComp + 1]
                   ELSE IF k < 2 * nComp + strideBound
                        THEN (IF a.hasInitQ THEN ReadAt(a.initQ, k - 2 * nComp, junk)
                              ELSE Zero)
                   ELSE IF a.hasInitVolume THEN a.initVolume ELSE Zero],
          yDot |-> a.yDotOld,
          oobRead |-> a.hasInitQ /\ Len(a.initQ) < strideBound]

(* applyInitialCondition(paramProvider, vecStateY, vecStateYdot); a holds  *)
(* the parameters and the buffers on entry                                 *)
ApplyInitialCondition(a, junk) ==
    /\ configured
    /\ ret' = ApplyInitialConditionResult(a, junk)
    /\ op' = "applyInitialCondition"
    /\ args' = a
    /\ UNCHANGED <<sensVars, sparseVars, cfgVars, curFlowRateFilter, flowVars, jacVars>>

---------------------------------------------------------------------------
(* parameter sensitivities: the registry _sensParams *)

(* pId.unitOperation is neither _unitOpIdx nor UnitOpIndep *)
ForeignUnitOp(pId) == pId.unitOperation \notin {"this", "indep"}

(* _parameters.find(pId): reconfigure() registers POROSITY always and      *)
(* FLOWRATE_FILTER if it exists                                            *)
FindParameter(pId) ==
    IF ~configured THEN NoParam
    ELSE IF pId.name = "POROSITY" THEN PorosityLoc
    ELSE IF pId.name = "FLOWRATE_FILTER" /\ Len(flowRateFilter) > 0 THEN FilterLoc(0)
    ELSE NoParam

(* _binding->getParameter(pId), null without binding model or parameter *)
BindingGetParameter(pId) ==
    IF bindingHasParam /\ pId.name = "BINDING" THEN BindingLoc ELSE NoParam

(* the storage location setSensitiveParameter() registers for pId *)
SensitiveLocation(pId) ==
    IF ForeignUnitOp(pId) THEN NoParam
    ELSE IF FindParameter(pId) # NoParam THEN FindParameter(pId)
    ELSE BindingGetParameter(pId)

(* active::setADValue(adDirection, adValue) *)
SetADValue(ad, adDirection, adValue) == [ad EXCEPT ![adDirection] = adValue]

(* active::setADValue(0.0): every direction set *)
SetADValueAll(ad) == [dir \in DOMAIN ad |-> Zero]

(* setSensitiveParameter(pId, adDirection, adValue) *)
SetSensitiveParameter(pId, adDirection, adValue) ==
    /\ LET loc == SensitiveLocation(pId)
       IN  IF loc = NoParam
           THEN /\ UNCHANGED <<sensParams, paramAd>>
                /\ ret' = [code |-> FALSE]
           ELSE /\ sensParams' = sensParams \cup {loc}
                /\ paramAd' = [paramAd EXCEPT ![loc] = SetADValue(@, adDirection, adValue)]
                /\ ret' = [code |-> TRUE]
    /\ op' = "setSensitiveParameter"
    /\ args' = [pId |-> pId, adDirection |-> adDirection, adValue |-> adValue]
    /\ UNCHANGED <<cfgVars, curFlowRateFilter, flowVars, jacVars, bindingHasParam,
                   sparseVars>>

(* setSensitiveParameterValue(pId, value): only registered parameters are  *)
(* set; the value of the binding parameter is kept by the binding model    *)
SetSensitiveParameterValue(pId, value) ==
    /\ LET own == FindParameter(pId)
           hit == ~ForeignUnitOp(pId) /\ own # NoParam /\ own \in sensParams
       IN  /\ porosity' = IF hit /\ own = PorosityLoc THEN value ELSE porosity
           /\ flowRateFilter' = IF hit /\ own = FilterLoc(0)
                                THEN [flowRateFilter EXCEPT ![1] = value]
                                ELSE flowRateFilter
    /\ op' = "setSensitiveParameterValue"
    /\ args' = [pId |-> pId, value |-> value]
    /\ ret' = [code |-> 0]
    /\ UNCHANGED <<nComp, nBound, boundOffset, strideBound, analyticJac, configured,
                   curFlowRateFilter, flowVars, jacVars, sensVars, sparseVars>>

(* a clearSensParams() that would reset only the first direction *)
ClearedAdFirstDirection ==
    [l \in ParamLocations |->
        IF l \in sensParams THEN SetADValue(paramAd[l], 0, Zero) ELSE paramAd[l]]

(* paramAd after the loop of clearSensParams() *)
ClearedAd ==
    [l \in ParamLocations |->
        IF l \in sensParams THEN SetADValueAll(paramAd[l]) ELSE paramAd[l]]

(* clearSensParams() *)
ClearSensParams ==
    /\ paramAd' = ClearedAd
    /\ sensParams' = {}
    /\ op' = "clearSensParams"
    /\ args' = [registered |-> sensParams, adOnEntry |-> paramAd]
    /\ ret' = [code |-> 0]
    /\ UNCHANGED <<cfgVars, curFlowRateFilter, flowVars, jacVars, bindingHasParam,
                   sparseVars>>

---------------------------------------------------------------------------
(* residualImpl *)

RECURSIVE BoundSumLoop(_, _, _, _)
(* for (unsigned int j = 0; i < nBound; ++i) resC[i] += qDot[j];           *)
(* the loop tests and advances the component index i and never j; it       *)
(* yields the advanced i and the residual                                  *)
BoundSumLoop(i, nB, res, qDot0) ==
    IF i < nB
    THEN BoundSumLoop(i + 1, nB, [res EXCEPT ![nComp + i] = DAdd(@, qDot0)], qDot0)
    ELSE <<i, res>>

RECURSIVE TankLoop(_, _, _, _, _, _, _)
(* the loop over the components of the tank concentration block, from i on *)
TankLoop(i, res, y, hasYDot, yDot, timeFactor, dirs) ==
    IF i >= nComp THEN res
    ELSE
        LET L(x) == DConst(x, dirs)
            r0 == [res EXCEPT ![nComp + i] = L(Zero)]
            lp == IF hasYDot
                  THEN BoundSumLoop(i, nBound[i], r0,
                                    L(yDot[2 * nComp + boundOffset[i]]))
                  ELSE <<i, r0>>
            i1 == lp[1]
            r1 == lp[2]
            r2 == IF hasYDot
                  THEN [r1 EXCEPT ![nComp + i1] =
                          DMul(L(timeFactor),
                               DAdd(DMul(DAdd(L(yDot[nComp + i1]),
                                              DMul(L(InvBeta), r1[nComp + i1])),
                                         y[VolIdx]),
                                    DMul(L(yDot[VolIdx]), y[nComp + i1])))]
                  ELSE r1
            r3 == [r2 EXCEPT ![nComp + i1] =
                      DAdd(@, DAdd(DMul(DNeg(L(flowRateIn)), y[i1]),
                                   DMul(L(flowRateOut), y[nComp + i1])))]
        IN  TankLoop(i1 + 1, r3, y, hasYDot, yDot, timeFactor, dirs)

(* the residual vector written by residualImpl: y and resOld (the content  *)
(* of the residual buffer on entry) are AD vectors over dirs, yDot is a    *)
(* double vector, read only when hasYDot                                   *)
ResidualImpl(y, hasYDot, yDot, timeFactor, resOld, dirs) ==
    LET rIn == [k \in DofIdx |-> IF k < nComp THEN y[k] ELSE resOld[k]]
        rTank == TankLoop(0, rIn, y, hasYDot, yDot, timeFactor, dirs)
        rBind == BindingResidual(rTank)
        vDot == IF hasYDot THEN yDot[VolIdx] ELSE Zero
    IN  [rBind EXCEPT ![VolIdx] =
            DConst(RAdd(RAdd(RSub(vDot, flowRateIn), flowRateOut),
                        curFlowRateFilter), dirs)]

(* sum over the bound states of component i of the entries of vec from base on *)
BoundSum(vec, base, i) ==
    SumTo([j \in 0 .. nBound[i] - 1 |-> vec[base + boundOffset[i] + j]], nBound[i])

(* the wantJac block of residualImpl: _jac.setAll(0.0) and the closed form *)
AnalyticJacobian(yDot) ==
    BindingAnalyticJacobian(
        [rc \in PureIdx \X PureIdx |->
            LET i == rc[1]
                c == rc[2]
            IN  IF i >= nComp THEN Zero
                ELSE IF c = i THEN RAdd(yDot[VolIdx], flowRateOut)
                ELSE IF c >= nComp + boundOffset[i]
                        /\ c < nComp + boundOffset[i] + nBound[i]
                     THEN RMul(yDot[VolIdx], InvBeta)
                ELSE IF c = nComp + strideBound
                     THEN RAdd(yDot[nComp + i],
                               RMul(InvBeta, BoundSum(yDot, 2 * nComp, i)))
                ELSE Zero])

---------------------------------------------------------------------------
(* residual *)

(* number of AD directions of an AD vector: the adDirOffset parameter      *)
(* directions, followed by requiredADdirs() Jacobian directions if usesAD() *)
AdDirs(adDirOffset) ==
    0 .. adDirOffset + (IF analyticJac THEN 0 ELSE requiredADdirs) - 1

(* residual(t, secIdx, timeFactor, y, yDot, res): residualImpl<double,     *)
(* double, double, false>; yDot may be null (hasYDot = FALSE)              *)
ResidualPlain(y, hasYDot, yDot, timeFactor, resOld) ==
    /\ configured
    /\ LET r == ResidualImpl(LiftVector(y, {}), hasYDot, yDot, timeFactor,
                             LiftVector(resOld, {}), {})
       IN  ret' = [code |-> 0, res |-> CopyFromAd(r), adRes |-> r]
    /\ op' = "residualPlain"
    /\ args' = [y |-> y, hasYDot |-> hasYDot, yDot |-> yDot,
                timeFactor |-> timeFactor, resOld |-> resOld]
    /\ UNCHANGED <<sensVars, sparseVars, cfgVars, curFlowRateFilter, flowVars, jacVars>>

(* the AD residual vector of residual(): which residualImpl instance runs  *)
(* on which buffers.  resOld is the content on entry of the buffer the     *)
(* instance writes (res, or the values of adRes), without derivatives.     *)
ResidualAdRes(y, yDot, timeFactor, resOld, adDirOffset, updateJacobian, paramSensitivity) ==
    LET dirs == AdDirs(adDirOffset)
    IN  IF updateJacobian /\ analyticJac
        THEN IF paramSensitivity
             THEN ResidualImpl(LiftVector(y, dirs), TRUE, yDot, timeFactor,
                               LiftVector(resOld, dirs), dirs)
             ELSE ResidualImpl(LiftVector(y, {}), TRUE, yDot, timeFactor,
                               LiftVector(resOld, {}), {})
        ELSE IF updateJacobian
        THEN ResidualImpl(SeededAdY(y, adDirOffset, dirs), TRUE, yDot, timeFactor,
                          LiftVector(ZeroVector(numDofs), dirs), dirs)
        ELSE IF paramSensitivity
        THEN ResidualImpl(LiftVector(y, dirs), TRUE, yDot, timeFactor,
                          LiftVector(ZeroVector(numDofs), dirs), dirs)
        ELSE ResidualImpl(LiftVector(y, {}), TRUE, yDot, timeFactor,
                          LiftVector(resOld, {}), {})

(* _jac after residual() *)
ResidualJac(yDot, adRes, adDirOffset, updateJacobian) ==
    IF ~updateJacobian THEN jac
    ELSE IF analyticJac THEN AnalyticJacobian(yDot)
    ELSE ExtractDenseJacobianFromAd(adRes, adDirOffset)

(* a residual() that would not mark the Jacobian as changed *)
ResidualFactorizeJacUnmarked(updateJacobian) == factorizeJac

(* _factorizeJac after residual() *)
ResidualFactorizeJac(updateJacobian) ==
    IF updateJacobian THEN TRUE ELSE factorizeJac

(* residual(t, secIdx, timeFactor, y, yDot, res, adRes, adY, adDirOffset,  *)
(* updateJacobian, paramSensitivity), yDot supplied                        *)
Residual(y, yDot, timeFactor, resOld, adDirOffset, updateJacobian, paramSensitivity) ==
    /\ configured
    /\ LET r == ResidualAdRes(y, yDot, timeFactor, resOld, adDirOffset,
                              updateJacobian, paramSensitivity)
           j == ResidualJac(yDot, r, adDirOffset, updateJacobian)
       IN  /\ ret' = [code |-> 0, res |-> CopyFromAd(r), adRes |-> r]
           /\ jac' = j
           /\ lastJac' = IF updateJacobian THEN j ELSE lastJac
    /\ factorizeJac' = ResidualFactorizeJac(updateJacobian)
    /\ op' = "residual"
    /\ args' = [y |-> y, hasYDot |-> TRUE, yDot |-> yDot,
                timeFactor |-> timeFactor, resOld |-> resOld,
                adDirOffset |-> adDirOffset, updateJacobian |-> updateJacobian,
                paramSensitivity |-> paramSensitivity]
    /\ UNCHANGED <<sensVars, sparseVars, cfgVars, curFlowRateFilter, flowVars, jacFact, jacFactState>>

---------------------------------------------------------------------------
(* linearSolve *)

(* addTimeDerivativeJacobian(t, timeFactor, y, yDot, mat): every entry it  *)
(* touches is assigned, not accumulated                                    *)
AddTimeDerivativeJacobian(mat, timeFactor, y) ==
    LET v == y[VolIdx]
        vInvBeta == RMul(RMul(timeFactor, v), InvBeta)
        timeV == RMul(timeFactor, v)
        m1 == [rc \in DOMAIN mat |->
                 LET i == rc[1]
                     c == rc[2]
                 IN  IF i >= nComp THEN mat[rc]
                     ELSE IF c = i THEN timeV
                     ELSE IF c >= nComp + boundOffset[i]
                             /\ c < nComp + boundOffset[i] + nBound[i]
                          THEN vInvBeta
                     ELSE IF c = nComp + strideBound
                          THEN RMul(timeFactor,
                                    RAdd(y[nComp + i],
                                         RMul(InvBeta, BoundSum(y, 2 * nComp, i))))
                     ELSE mat[rc]]
        m2 == BindingJacobianAddDiscretized(m1)
    IN  [m2 EXCEPT ![<<nComp + strideBound, nComp + strideBound>>] = timeFactor]

RECURSIVE IsSingular(_, _)
(* exact singularity of the n x n matrix m, by elimination on column 0 *)
IsSingular(m, n) ==
    IF n = 0 THEN FALSE
    ELSE LET piv == {r \in 0 .. n - 1 : m[<<r, 0>>] # Zero}
         IN  IF piv = {} THEN TRUE
             ELSE LET p == CHOOSE r \in piv : \A q \in piv : r <= q
                      rowOf(k) == IF k < p THEN k ELSE k + 1
                      sub == [rc \in (0 .. n - 2) \X (0 .. n - 2) |->
                                LET r == rowOf(rc[1])
                                    c == rc[2] + 1
                                IN  RSub(m[<<r, c>>],
                                         RMul(RDiv(m[<<r, 0>>], m[<<p, 0>>]),
                                              m[<<p, c>>]))]
                  IN  IsSingular(sub, n - 1)

(* DenseMatrix::factorize(): fails on a singular matrix *)
Factorize(mat) == ~IsSingular(mat, numPureDofs)

(* a back substitution that would add the inlet entry without the inflow *)
EliminateInletUnscaled(rhs) ==
    [k \in DofIdx |->
        IF k >= nComp /\ k < 2 * nComp
        THEN RAdd(rhs[k], rhs[k - nComp])
        ELSE rhs[k]]

(* rhs after the back substitution of the inlet equations *)
EliminateInlet(rhs) ==
    [k \in DofIdx |->
        IF k >= nComp /\ k < 2 * nComp
        THEN RAdd(rhs[k], RMul(flowRateIn, rhs[k - nComp]))
        ELSE rhs[k]]

(* _factorizeJac after linearSolve() *)
SolveFactorizeJac == FALSE

(* a linearSolve() that would report success whatever the status *)
SolveReturnAlwaysZero(success) == 0

(* the return code of linearSolve() *)
SolveReturn(success) == IF success THEN 0 ELSE 1

(* linearSolve(t, timeFactor, alpha, tol, rhs, weight, y, yDot, res);      *)
(* solveOk is the status DenseMatrix::solve() returns if it is called.     *)
(* ret.solveRhs is rhs as handed to solve() (solve gets rhs + _nComp and   *)
(* overwrites that part with the solution, which the model does not track) *)
LinearSolve(rhs, y, yDot, timeFactor, solveOk) ==
    /\ configured
    /\ LET rhs1 == EliminateInlet(rhs)
           factOk == Factorize(jac)
           success1 == IF factorizeJac THEN factOk ELSE TRUE
           success == success1 /\ solveOk
       IN  /\ IF factorizeJac
              THEN /\ factorizeJac' = SolveFactorizeJac
                   /\ jacFact' = jac
                   /\ jac' = AddTimeDerivativeJacobian(jac, timeFactor, y)
                   /\ jacFactState' = IF factOk THEN "ok" ELSE "failed"
              ELSE UNCHANGED <<factorizeJac, jacFact, jac, jacFactState>>
           /\ ~success1 => solveOk
           /\ ret' = [code |-> SolveReturn(success),
                      flagOnEntry |-> factorizeJac,
                      nFactorize |-> IF factorizeJac THEN 1 ELSE 0,
                      factorizeOk |-> success1,
                      nSolve |-> IF success1 THEN 1 ELSE 0,
                      solveOk |-> solveOk,
                      solveRhs |-> rhs1,
                      solveMat |-> IF factorizeJac THEN jac ELSE jacFact,
                      solveMatState |-> IF factorizeJac
                                        THEN (IF factOk THEN "ok" ELSE "failed")
                                        ELSE jacFactState]
    /\ op' = "linearSolve"
    /\ args' = [rhs |-> rhs, y |-> y, yDot |-> yDot, timeFactor |-> timeFactor]
    /\ UNCHANGED <<sensVars, sparseVars, cfgVars, curFlowRateFilter, flowVars, lastJac>>

---------------------------------------------------------------------------
(* consistent initialization *)

(* the volume consistentInitialState and consistentInitialTimeDerivative   *)
(* test: c[_nComp] with c = vecStateY + _nComp                             *)
InitVolIdx == 2 * nComp

(* vDot = flowIn - flowOut - _curFlowRateFilter *)
VDot == RSub(RSub(flowRateIn, flowRateOut), curFlowRateFilter)

(* vecStateY after consistentInitialState() *)
ConsistentInitialStateY(y) ==
    LET v == y[InitVolIdx]
        denom == RAdd(VDot, flowRateOut)
    IN  IF v = Zero /\ denom # Zero
        THEN LET factor == RDiv(flowRateIn, denom)
             IN  [k \in DofIdx |->
                    IF k >= nComp /\ k < 2 * nComp
                    THEN RMul(y[k - nComp], factor)
                    ELSE y[k]]
        ELSE y

ConsistentInitialState(y) ==
    /\ configured
    /\ ret' = [code |-> 0, y |-> ConsistentInitialStateY(y),
               zeroVolume |-> y[InitVolIdx] = Zero]
    /\ op' = "consistentInitialState"
    /\ args' = [y |-> y]
    /\ UNCHANGED <<sensVars, sparseVars, cfgVars, curFlowRateFilter, flowVars, jacVars>>

(* vecStateYdot after consistentInitialTimeDerivative() *)
ConsistentInitialTimeDerivativeYdot(y, yDot) ==
    LET v == y[InitVolIdx]
        yd0 == [yDot EXCEPT ![InitVolIdx] = VDot]
        denom == RAdd(RMul(Two, VDot), flowRateOut)
    IN  IF v = Zero
        THEN IF denom = Zero
             THEN [k \in DofIdx |->
                     IF k >= nComp /\ k < 2 * nComp THEN Zero ELSE yd0[k]]
             ELSE LET factor == RDiv(flowRateIn, denom)
                  IN  [k \in DofIdx |->
                         IF k < nComp THEN Zero
                         ELSE IF k < 2 * nComp THEN RMul(Zero, factor)
                         ELSE yd0[k]]
        ELSE [k \in DofIdx |->
                IF k >= nComp /\ k < 2 * nComp
                THEN RDiv(RSub(RNeg(yd0[k]), RMul(VDot, y[k])), v)
                ELSE yd0[k]]

ConsistentInitialTimeDerivative(y, yDot) ==
    /\ configured
    /\ ret' = [code |-> 0, yDot |-> ConsistentInitialTimeDerivativeYdot(y, yDot),
               zeroVolume |-> y[InitVolIdx] = Zero]
    /\ op' = "consistentInitialTimeDerivative"
    /\ args' = [y |-> y, yDot |-> yDot]
    /\ UNCHANGED <<sensVars, sparseVars, cfgVars, curFlowRateFilter, flowVars, jacVars>>

---------------------------------------------------------------------------
(* forward sensitivities *)

(* ret after multiplyWithJacobian(t, secIdx, timeFactor, y, yDot, yS,      *)
(* alpha, beta, ret), with mat the content of _jac                         *)
MultiplyWithJacobian(mat, yS, alpha, beta, retOld) ==
    LET tank == MatMultiplyVector(mat, numPureDofs,
                                  [k \in PureIdx |-> yS[nComp + k]], alpha, beta,
                                  [k \in PureIdx |-> retOld[nComp + k]])
    IN  [k \in DofIdx |->
            IF k < nComp THEN RAdd(RMul(alpha, yS[k]), RMul(beta, retOld[k]))
            ELSE IF k < 2 * nComp
            THEN RSub(tank[k - nComp], RMul(RMul(alpha, flowRateIn), yS[k - nComp]))
            ELSE tank[k - nComp]]

(* _jac after multiplyWithDerivativeJacobian(): setAll(0.0), then          *)
(* addTimeDerivativeJacobian(t, timeFactor, y, yDot, _jac)                 *)
DerivativeJacobian(timeFactor, y) ==
    AddTimeDerivativeJacobian(ZeroMatrix(numPureDofs), timeFactor, y)

(* ret after multiplyWithDerivativeJacobian(..., sDot, ret) *)
MultiplyWithDerivativeJacobian(timeFactor, y, sDot) ==
    LET tank == MatMultiplyVector(DerivativeJacobian(timeFactor, y), numPureDofs,
                                  [k \in PureIdx |-> sDot[nComp + k]], One, Zero,
                                  ZeroVector(numPureDofs))
    IN  [k \in DofIdx |-> IF k < nComp THEN Zero ELSE tank[k - nComp]]

RECURSIVE CombineLoop(_, _, _, _, _, _, _, _)
(* the loop of residualSensFwdCombine from parameter index param on (yS,   *)
(* ySdot: sequences of vectors, parameter p at position p + 1); yields     *)
(* <<resS, _jac>>                                                          *)
CombineLoop(param, mat, resS, timeFactor, y, yS, ySdot, adRes) ==
    IF param >= Len(yS) THEN <<resS, mat>>
    ELSE LET tmp1 == MultiplyWithJacobian(mat, yS[param + 1], One, Zero,
                                          ZeroVector(numDofs))
             tmp2 == MultiplyWithDerivativeJacobian(timeFactor, y, ySdot[param + 1])
             r == [i \in DofIdx |->
                     RAdd(RAdd(tmp1[i], tmp2[i]), adRes[i].d[param])]
         IN  CombineLoop(param + 1, DerivativeJacobian(timeFactor, y),
                         Append(resS, r), timeFactor, y, yS, ySdot, adRes)

(* residualSensFwdCombine(t, secIdx, timeFactor, y, yDot, yS, ySdot,       *)
(* resS, adRes, tmp1, tmp2, tmp3)                                          *)
ResidualSensFwdCombine(timeFactor, y, yDot, yS, ySdot, adRes) ==
    /\ configured
    /\ LET lp == CombineLoop(0, jac, <<>>, timeFactor, y, yS, ySdot, adRes)
       IN  /\ ret' = [code |-> 0, resS |-> lp[1]]
           /\ jac' = lp[2]
    /\ op' = "residualSensFwdCombine"
    /\ args' = [timeFactor |-> timeFactor, y |-> y, yDot |-> yDot, yS |-> yS,
                ySdot |-> ySdot, adRes |-> adRes, jacOnEntry |-> jac]
    /\ UNCHANGED <<sensVars, sparseVars, cfgVars, curFlowRateFilter, flowVars, jacFact, jacFactState,
                   factorizeJac, lastJac>>

RECURSIVE FactorizeInPlace(_, _, _)
(* DenseMatrix::factorize() on the matrix itself: the LU factors replace   *)
(* the n x n matrix mat, column k onwards (elimination without row         *)
(* exchange; a zero pivot leaves its column as it is)                      *)
FactorizeInPlace(mat, k, n) ==
    IF k >= n THEN mat
    ELSE IF mat[<<k, k>>] = Zero THEN FactorizeInPlace(mat, k + 1, n)
    ELSE FactorizeInPlace(
            [rc \in DOMAIN mat |->
                IF rc[1] > k /\ rc[2] = k THEN RDiv(mat[rc], mat[<<k, k>>])
                ELSE IF rc[1] > k /\ rc[2] > k
                THEN RSub(mat[rc], RMul(RDiv(mat[<<rc[1], k>>], mat[<<k, k>>]),
                                        mat[<<k, rc[2]>>]))
                ELSE mat[rc]],
            k + 1, n)

RECURSIVE InitSensLoop(_, _, _, _, _, _, _, _)
(* the loop of consistentInitialSensitivity from parameter index param on; *)
(* yields <<the right-hand sides handed to _jac.solve(), _jac>> (solve     *)
(* overwrites the pure DOFs of sensYdot with the solution, which the model *)
(* does not track)                                                         *)
InitSensLoop(param, mat, rhsS, timeFactor, y, sensY, sensYdot, adRes) ==
    IF param >= Len(sensY) THEN <<rhsS, mat>>
    ELSE LET m == MultiplyWithJacobian(mat, sensY[param + 1], RNeg(One), Zero,
                                       sensYdot[param + 1])
             r == [i \in DofIdx |->
                     IF i >= nComp THEN RSub(m[i], adRes[i].d[param]) ELSE m[i]]
         IN  InitSensLoop(param + 1,
                          FactorizeInPlace(DerivativeJacobian(timeFactor, y), 0,
                                           numPureDofs),
                          Append(rhsS, r), timeFactor, y, sensY, sensYdot, adRes)

(* consistentInitialSensitivity(t, secIdx, timeFactor, vecStateY,          *)
(* vecStateYdot, vecSensY, vecSensYdot, adRes)                             *)
ConsistentInitialSensitivity(timeFactor, y, yDot, sensY, sensYdot, adRes) ==
    /\ configured
    /\ LET lp == InitSensLoop(0, jac, <<>>, timeFactor, y, sensY, sensYdot, adRes)
       IN  /\ ret' = [code |-> 0, solveRhs |-> lp[1]]
           /\ jac' = lp[2]
    /\ op' = "consistentInitialSensitivity"
    /\ args' = [timeFactor |-> timeFactor, y |-> y, yDot |-> yDot, sensY |-> sensY,
                sensYdot |-> sensYdot, adRes |-> adRes, jacOnEntry |-> jac]
    /\ UNCHANGED <<sensVars, sparseVars, cfgVars, curFlowRateFilter, flowVars, jacFact, jacFactState,
                   factorizeJac, lastJac>>

---------------------------------------------------------------------------
(* The state after construction *)

Init ==
    /\ nComp = 0
    /\ nBound = <<>>
    /\ boundOffset = <<>>
    /\ strideBound = 0
    /\ analyticJac = TRUE
    /\ porosity = Zero
    /\ flowRateFilter = <<>>
    /\ curFlowRateFilter = Zero
    /\ flowRateIn = Zero
    /\ flowRateOut = Zero
    /\ jac = <<>>
    /\ jacFact = <<>>
    /\ jacFactState = "none"
    /\ factorizeJac = FALSE
    /\ configured = FALSE
    /\ lastJac = <<>>
    /\ sensParams = {}
    /\ paramAd = [l \in ParamLocations |-> NoDerivative]
    /\ bindingHasParam = FALSE
    /\ rows = <<>>
    /\ cols = <<>>
    /\ values = <<>>
    /\ curIdx = 0
    /\ op = "construct"
    /\ args = <<>>
    /\ ret = <<>>

---------------------------------------------------------------------------
(* Inputs *)

(* the vector a, a + b, a + 2b, ... over the DOFs *)
Ramp(a, b) == [k \in DofIdx |-> R(a + b * k)]

Half == RDiv(One, Two)

(* the bound-state layouts: NBOUND absent, or one count per component *)
Layouts(nc) ==
    {<<FALSE, [i \in 0 .. nc - 1 |-> 0]>>}
        \cup {<<TRUE, nb>> : nb \in {f \in [0 .. nc - 1 -> 0 .. MaxStride] :
                                        StrideOf(nc, f) <= MaxStride}}

---------------------------------------------------------------------------
(* Residual evaluations: every residualImpl instance, both Jacobian        *)
(* strategies, with and without bound states                               *)

ResConfigure ==
    \E nc \in 1 .. MaxComp, aj \in BOOLEAN, hasPor \in BOOLEAN :
        \E lay \in Layouts(nc) :
            Configure(nc, lay[1], lay[2], aj, FALSE, <<>>, hasPor, Half, FALSE)

ResSetFlowRates == SetFlowRates(R(2), R(1))

ResResidualPlain ==
    \E hasYDot \in BOOLEAN, tf \in {One, Two}, old \in {0, 5} :
        ResidualPlain(Ramp(1, 1), hasYDot, Ramp(2, 3), tf, Ramp(old, 0))

ResResidual ==
    \E tf \in {One, Two}, upd \in BOOLEAN, sens \in BOOLEAN, old \in {0, 5} :
        Residual(Ramp(1, 1), Ramp(2, 3), tf, Ramp(old, 0),
                 IF sens THEN 1 ELSE 0, upd, sens)

NextResidual ==
    \/ ResConfigure
    \/ ResSetFlowRates
    \/ ResResidualPlain
    \/ ResResidual

SpecResidual == Init /\ [][NextResidual]_vars

---------------------------------------------------------------------------
(* Claims about the residual *)

(* the tank residual of component i as C1 states it, for the inputs a of a *)
(* residual evaluation                                                     *)
TankResidualClaimed(a, i) ==
    LET acc == IF a.hasYDot
               THEN RMul(a.timeFactor,
                         RAdd(RMul(RAdd(a.yDot[nComp + i],
                                        RMul(InvBeta, BoundSum(a.yDot, 2 * nComp, i))),
                                   a.y[VolIdx]),
                              RMul(a.yDot[VolIdx], a.y[nComp + i])))
               ELSE Zero
    IN  RAdd(acc, RAdd(RMul(RNeg(flowRateIn), a.y[i]),
                       RMul(flowRateOut, a.y[nComp + i])))

IsResidualCall == op \in {"residual", "residualPlain"}

(* C1: after every residual evaluation, for every component i and every    *)
(* bound-state layout, the tank residual entry is                          *)
(* timeFactor*((dc_i/dt + (1/porosity-1)*SUM_j dq_ij/dt)*V + dV/dt*c_i)      *)
(* - flowIn*c_in,i + flowOut*c_i with the sum over the bound states of     *)
(* component i (and -flowIn*c_in,i + flowOut*c_i without time derivatives) *)
C1_TankResidual ==
    IsResidualCall =>
        \A i \in 0 .. nComp - 1 : ret.res[nComp + i] = TankResidualClaimed(args, i)

(* C1 restricted to layouts without bound states, where the code agrees *)
C1_NoBoundStates ==
    (IsResidualCall /\ strideBound = 0) =>
        \A i \in 0 .. nComp - 1 : ret.res[nComp + i] = TankResidualClaimed(args, i)

(* the Jacobian of the AD path for the inputs a of a residual evaluation:  *)
(* seed, evaluate residualImpl on the AD state, extract                    *)
AdPathJacobian(a) ==
    LET dirs == 0 .. a.adDirOffset + requiredADdirs - 1
    IN  ExtractDenseJacobianFromAd(
            ResidualImpl(SeededAdY(a.y, a.adDirOffset, dirs), TRUE, a.yDot,
                         a.timeFactor, LiftVector(ZeroVector(numDofs), dirs), dirs),
            a.adDirOffset)

(* C2: after a Jacobian-updating residual evaluation of a model without    *)
(* bound states, the stored Jacobian is, entry for entry, both the one the *)
(* AD path gives and the one the analytic path gives at these inputs       *)
C2_AdEqualsAnalytic ==
    (op = "residual" /\ args.updateJacobian /\ strideBound = 0) =>
        /\ jac = AdPathJacobian(args)
        /\ jac = AnalyticJacobian(args.yDot)

(* C2 restricted to timeFactor = 1, where the two paths agree *)
C2_UnitTimeFactor ==
    (op = "residual" /\ args.updateJacobian /\ strideBound = 0
        /\ args.timeFactor = One) =>
        /\ jac = AdPathJacobian(args)
        /\ jac = AnalyticJacobian(args.yDot)

---------------------------------------------------------------------------
(* Residual evaluations and linear solves, as the time integrator issues   *)
(* them                                                                    *)

SolveConfigure ==
    \E nc \in 1 .. MaxComp, aj \in BOOLEAN, hasPor \in BOOLEAN :
        \E lay \in Layouts(nc) :
            Configure(nc, lay[1], lay[2], aj, FALSE, <<>>, hasPor, Half, FALSE)

SolveSetFlowRates == SetFlowRates(R(2), R(1))

SolveResidual ==
    \E upd \in BOOLEAN, sens \in BOOLEAN :
        Residual(Ramp(1, 1), Ramp(2, 3), One, Ramp(0, 0),
                 IF sens THEN 1 ELSE 0, upd, sens)

SolveLinearSolve ==
    \E tf \in {One, Two}, solveOk \in BOOLEAN :
        LinearSolve(Ramp(1, 2), Ramp(1, 1), Ramp(2, 3), tf, solveOk)

Next ==
    \/ SolveConfigure
    \/ SolveSetFlowRates
    \/ SolveResidual
    \/ SolveLinearSolve

Spec == Init /\ [][Next]_vars

---------------------------------------------------------------------------
(* Claims about linearSolve *)

MatAdd(a, b) == [rc \in DOMAIN a |-> RAdd(a[rc], b[rc])]

(* C3: when linearSolve refactorizes, the matrix it factorizes is the     *)
(* state Jacobian of the last Jacobian-updating residual evaluation plus   *)
(* the time-derivative Jacobian at the y and timeFactor given to           *)
(* linearSolve                                                             *)
C3_FactorizesCombinedJacobian ==
    (op = "linearSolve" /\ ret.flagOnEntry) =>
        jacFact = MatAdd(lastJac, DerivativeJacobian(args.timeFactor, args.y))

(* what the code factorizes instead: the state Jacobian alone, while the   *)
(* time-derivative entries overwrite _jac                                  *)
C3_FactorizesStateJacobianOnly ==
    (op = "linearSolve" /\ ret.flagOnEntry) =>
        /\ jacFact = lastJac
        /\ jac = AddTimeDerivativeJacobian(lastJac, args.timeFactor, args.y)

(* C4: a residual evaluation with updateJacobian sets the dirty flag, one  *)
(* without leaves it unchanged; linearSolve factorizes (copies _jac into   *)
(* _jacFact and factorizes it) iff the flag is set on entry, and the flag  *)
(* is clear after it                                                       *)
C4_DirtyFlag ==
    [][ /\ (op' = "residual" /\ args'.updateJacobian) => factorizeJac'
        /\ (op' = "residual" /\ ~args'.updateJacobian) =>
                factorizeJac' = factorizeJac
        /\ op' = "linearSolve" =>
                /\ ret'.nFactorize = (IF factorizeJac THEN 1 ELSE 0)
                /\ factorizeJac => (jacFact' = jac /\ jacFactState' # "none")
                /\ ~factorizeJac => UNCHANGED <<jacFact, jacFactState>>
                /\ ~factorizeJac' ]_vars

(* a linearSolve that found the flag clear after an earlier one factorized *)
C4_Witness ==
    /\ op = "linearSolve"
    /\ ret.nFactorize = 0
    /\ jacFactState # "none"
    /\ lastJac # <<>>

(* C5: the tank entries handed to the solve are rhs[nComp+i] +             *)
(* flowIn*rhs[i]; the inlet entries and the entries of the bound-state and *)
(* volume rows are those of rhs on entry                                   *)
C5_InletElimination ==
    op = "linearSolve" =>
        \A k \in DofIdx :
            ret.solveRhs[k] =
                IF k >= nComp /\ k < 2 * nComp
                THEN RAdd(args.rhs[k], RMul(flowRateIn, args.rhs[k - nComp]))
                ELSE args.rhs[k]

(* a solve was handed a right-hand side of a model with bound states and   *)
(* inflow                                                                  *)
C5_Witness ==
    /\ op = "linearSolve"
    /\ ret.nSolve = 1
    /\ strideBound > 0
    /\ flowRateIn # Zero

(* C6: linearSolve returns 0 iff the factorization (if performed in this   *)
(* call) and the solve both succeed and 1 otherwise, factorizes at most    *)
(* once, solves at most once, and does not solve after a failed            *)
(* factorization                                                           *)
C6_StatusNoRetry ==
    op = "linearSolve" =>
        /\ ret.code \in {0, 1}
        /\ ret.code = 0 <=> /\ ret.nFactorize = 1 => ret.factorizeOk
                            /\ ret.nSolve = 1
                            /\ ret.solveOk
        /\ ret.nFactorize <= 1
        /\ ret.nSolve <= 1
        /\ (ret.nFactorize = 1 /\ ~ret.factorizeOk) => ret.nSolve = 0

(* a failed factorization reported as 1, without a solve *)
C6_Witness ==
    /\ op = "linearSolve"
    /\ ret.nFactorize = 1
    /\ ~ret.factorizeOk
    /\ ret.nSolve = 0
    /\ ret.code = 1

---------------------------------------------------------------------------
(* Consistent initialization under every flow regime *)

(* Ramp(a, 1) with the volume DOF set to vol and, independently, the DOF   *)
(* at 2*nComp (the first bound state if there is one) set to q0            *)
InitState(a, vol, q0) ==
    [k \in DofIdx |->
        IF k = VolIdx THEN R(vol)
        ELSE IF k = 2 * nComp THEN R(q0)
        ELSE R(a + k)]

InitConfigure ==
    \E nc \in 1 .. MaxComp, hasFilter \in BOOLEAN :
        \E lay \in Layouts(nc) :
            Configure(nc, lay[1], lay[2], TRUE, hasFilter, <<One>>, FALSE, One, FALSE)

InitSetFlowRates == \E in \in 0 .. 2, out \in 0 .. 2 : SetFlowRates(R(in), R(out))

InitReconfigure ==
    \E hasFilter \in BOOLEAN : Reconfigure(hasFilter, <<One>>, FALSE, One)

InitNotify == NotifyDiscontinuousSectionTransition(0)

InitConsistentInitialState ==
    \E vol \in {0, 3}, q0 \in {0, 4} : ConsistentInitialState(InitState(5, vol, q0))

InitConsistentInitialTimeDerivative ==
    \E vol \in {0, 3}, q0 \in {0, 4} :
        ConsistentInitialTimeDerivative(InitState(5, vol, q0), Ramp(3, 1))

NextInit ==
    \/ InitConfigure
    \/ InitReconfigure
    \/ InitSetFlowRates
    \/ InitNotify
    \/ InitConsistentInitialState
    \/ InitConsistentInitialTimeDerivative

SpecInit == Init /\ [][NextInit]_vars

---------------------------------------------------------------------------
(* Claims about consistent initialization *)

(* dV/dt + flowOut and 2*dV/dt + flowOut with dV/dt = flowIn - flowOut -   *)
(* currentFlowFilter                                                       *)
StateDenom == RAdd(VDot, flowRateOut)
DerivDenom == RAdd(RMul(Two, VDot), flowRateOut)

(* C7: consistentInitialState at zero tank volume with dV/dt + flowOut # 0 *)
(* sets every tank concentration to c_in,i * flowIn / (dV/dt + flowOut)    *)
C7_ZeroVolumeConcentration ==
    (op = "consistentInitialState" /\ args.y[VolIdx] = Zero /\ StateDenom # Zero) =>
        \A i \in 0 .. nComp - 1 :
            ret.y[nComp + i] = RDiv(RMul(args.y[i], flowRateIn), StateDenom)

(* C7 for the entry the code tests as the volume, y[2*nComp] *)
C7_AtTestedEntry ==
    (op = "consistentInitialState" /\ args.y[InitVolIdx] = Zero
        /\ StateDenom # Zero) =>
        \A i \in 0 .. nComp - 1 :
            ret.y[nComp + i] = RDiv(RMul(args.y[i], flowRateIn), StateDenom)

(* C8: consistentInitialState leaves the state vector unchanged when the   *)
(* volume is nonzero and when dV/dt + flowOut = 0, and never modifies the  *)
(* inlet, bound-state and volume entries                                   *)
C8_Frame ==
    op = "consistentInitialState" =>
        /\ (args.y[VolIdx] # Zero \/ StateDenom = Zero) => ret.y = args.y
        /\ \A k \in DofIdx : (k < nComp \/ k >= 2 * nComp) => ret.y[k] = args.y[k]

(* C8 for the entry the code tests as the volume *)
C8_AtTestedEntry ==
    op = "consistentInitialState" =>
        /\ (args.y[InitVolIdx] # Zero \/ StateDenom = Zero) => ret.y = args.y
        /\ \A k \in DofIdx : (k < nComp \/ k >= 2 * nComp) => ret.y[k] = args.y[k]

(* C9: consistentInitialTimeDerivative at zero tank volume sets dc_i/dt to *)
(* flowIn * (dc_in,i/dt on entry) / (2*dV/dt + flowOut) if the denominator *)
(* is nonzero, and to zero if it is zero                                   *)
C9_ZeroVolumeDerivative ==
    (op = "consistentInitialTimeDerivative" /\ args.y[VolIdx] = Zero) =>
        \A i \in 0 .. nComp - 1 :
            ret.yDot[nComp + i] =
                IF DerivDenom # Zero
                THEN RDiv(RMul(flowRateIn, args.yDot[i]), DerivDenom)
                ELSE Zero

(* what the code does at the entry it tests: dc_i/dt and the inlet         *)
(* derivative are both zeroed                                              *)
C9_ZeroedDerivative ==
    (op = "consistentInitialTimeDerivative" /\ args.y[InitVolIdx] = Zero) =>
        \A i \in 0 .. nComp - 1 :
            /\ ret.yDot[nComp + i] = Zero
            /\ DerivDenom # Zero => ret.yDot[i] = Zero

---------------------------------------------------------------------------
(* Forward sensitivity residuals after Jacobian updates *)

(* the sensitivity vectors and the AD residual handed to                   *)
(* residualSensFwdCombine for nP parameters: parameter p has               *)
(* s = Ramp(p + 1, 1), sDot = Ramp(1, p + 1) and dF/dp[i] = i + 10 p       *)
SensY(nP) == [p \in 1 .. nP |-> Ramp(p, 1)]
SensYdot(nP) == [p \in 1 .. nP |-> Ramp(1, p)]
SensAdRes(nP) ==
    [i \in DofIdx |-> [v |-> Zero, d |-> [p \in 0 .. nP - 1 |-> R(i + 10 * p)]]]

SensConfigure ==
    \E nc \in 1 .. MaxComp, aj \in BOOLEAN :
        \E lay \in Layouts(nc) :
            Configure(nc, lay[1], lay[2], aj, FALSE, <<>>, TRUE, Half, FALSE)

SensSetFlowRates == SetFlowRates(R(2), R(1))

SensResidual ==
    \E upd \in BOOLEAN :
        Residual(Ramp(1, 1), Ramp(2, 3), One, Ramp(0, 0), MaxParams, upd, TRUE)

SensResidualSensFwdCombine ==
    \E nP \in 1 .. MaxParams, tf \in {One, Two} :
        ResidualSensFwdCombine(tf, Ramp(1, 1), Ramp(2, 3), SensY(nP), SensYdot(nP),
                               SensAdRes(nP))

NextSens ==
    \/ SensConfigure
    \/ SensSetFlowRates
    \/ SensResidual
    \/ SensResidualSensFwdCombine

SpecSens == Init /\ [][NextSens]_vars

---------------------------------------------------------------------------
(* Claims about the forward sensitivity residual *)

(* (dF/dy * s)[i] with dF/dy the state Jacobian mat of the pure DOFs, the  *)
(* identity on the inlet DOFs and -flowIn coupling inlet i to tank row i   *)
StateJacobianTimes(mat, sv, i) ==
    IF i < nComp THEN sv[i]
    ELSE LET row == SumTo([c \in PureIdx |-> RMul(mat[<<i - nComp, c>>], sv[nComp + c])],
                          numPureDofs)
         IN  IF i < 2 * nComp
             THEN RSub(row, RMul(flowRateIn, sv[i - nComp]))
             ELSE row

(* (dF/dyDot * sDot)[i]: no contribution of the algebraic inlet DOFs *)
DerivativeJacobianTimes(mat, sv, i) ==
    IF i < nComp THEN Zero
    ELSE SumTo([c \in PureIdx |-> RMul(mat[<<i - nComp, c>>], sv[nComp + c])],
               numPureDofs)

(* C10: for every parameter p and DOF i, residualSensFwdCombine writes     *)
(* resS[p][i] = (dF/dy*yS[p])[i] + (dF/dyDot*ySdot[p])[i] + dF/dp[i], with  *)
(* dF/dy the state Jacobian of the last Jacobian-updating residual         *)
(* evaluation, for every p                                                 *)
C10_SensCombine ==
    (op = "residualSensFwdCombine" /\ lastJac # <<>>) =>
        \A p \in 1 .. Len(args.yS) : \A i \in DofIdx :
            ret.resS[p][i] =
                RAdd(RAdd(StateJacobianTimes(lastJac, args.yS[p], i),
                          DerivativeJacobianTimes(
                              DerivativeJacobian(args.timeFactor, args.y),
                              args.ySdot[p], i)),
                     args.adRes[i].d[p - 1])

(* C10 for the first parameter of a call that finds _jac as the residual   *)
(* evaluation left it                                                      *)
C10_FirstParameter ==
    (op = "residualSensFwdCombine" /\ lastJac # <<>> /\ args.jacOnEntry = lastJac) =>
        \A i \in DofIdx :
            ret.resS[1][i] =
                RAdd(RAdd(StateJacobianTimes(lastJac, args.yS[1], i),
                          DerivativeJacobianTimes(
                              DerivativeJacobian(args.timeFactor, args.y),
                              args.ySdot[1], i)),
                     args.adRes[i].d[0])

---------------------------------------------------------------------------
(* Seeding and clearing parameter sensitivities *)

ParamIds ==
    [name : {"POROSITY", "FLOWRATE_FILTER", "BINDING", "UNKNOWN"},
     unitOperation : {"this"}]
        \cup {[name |-> "POROSITY", unitOperation |-> "indep"],
              [name |-> "POROSITY", unitOperation |-> "other"]}

ParConfigure ==
    \E hasFilter \in BOOLEAN, hasBindingParam \in BOOLEAN :
        Configure(1, FALSE, [i \in 0 .. 0 |-> 0], TRUE, hasFilter, <<One>>, TRUE, Half,
                  hasBindingParam)

ParReconfigure == Reconfigure(Len(flowRateFilter) > 0, <<One>>, TRUE, Half)

ParSetSensitiveParameter ==
    \E pId \in ParamIds, dir \in AdDirections, adValue \in {Zero, One} :
        SetSensitiveParameter(pId, dir, adValue)

ParSetSensitiveParameterValue ==
    \E pId \in ParamIds : SetSensitiveParameterValue(pId, Two)

ParClearSensParams == ClearSensParams

NextParams ==
    \/ ParConfigure
    \/ ParReconfigure
    \/ ParSetSensitiveParameter
    \/ ParSetSensitiveParameterValue
    \/ ParClearSensParams

SpecParams == Init /\ [][NextParams]_vars

---------------------------------------------------------------------------
(* Claims about the sensitive-parameter registry *)

(* the directions in which the parameter at location l has a nonzero derivative *)
ActiveDirections(l) == {dir \in AdDirections : paramAd[l][dir] # Zero}

(* C11: after clearSensParams, every AD derivative component of every      *)
(* parameter (own and binding model) is zero and the registry is empty     *)
C11_ClearZeroesAll ==
    op = "clearSensParams" =>
        /\ \A l \in ParamLocations : ActiveDirections(l) = {}
        /\ sensParams = {}

(* clearSensParams ran on a registry holding an own parameter seeded in    *)
(* several directions and the binding parameter                            *)
C11_Witness ==
    /\ op = "clearSensParams"
    /\ BindingLoc \in args.registered
    /\ PorosityLoc \in args.registered
    /\ \A dir \in AdDirections : args.adOnEntry[PorosityLoc][dir] # Zero
    /\ args.adOnEntry[BindingLoc] # NoDerivative

(* C12: each registered parameter carries a nonzero derivative in at most  *)
(* one AD direction                                                        *)
C12_AtMostOneDirection ==
    \A l \in sensParams : Cardinality(ActiveDirections(l)) <= 1

(* what the registry does guarantee: a parameter with a nonzero derivative *)
(* is registered                                                           *)
C12_SeededIsRegistered ==
    \A l \in ParamLocations : ActiveDirections(l) # {} => l \in sensParams

---------------------------------------------------------------------------
(* Configuration and initial conditions *)

(* the array 11, 12, ... of length n *)
Data(n) == [k \in 1 .. n |-> R(10 + k)]

(* the lengths tried for an array that needs n entries *)
Lengths(n) == {k \in {n - 1, n} : k >= 0}

AppConfigure ==
    \E nc \in 1 .. MaxComp + 1 :
        \E lay \in Layouts(nc) :
            Configure(nc, lay[1], lay[2], TRUE, FALSE, <<>>, FALSE, One, FALSE)

AppApplyInitialConditionZero == ApplyInitialConditionZero

AppApplyInitialConditionState ==
    \E n \in Lengths(numDofs) \cup {2 * numDofs}, junk \in {Zero, R(7)} :
        ApplyInitialCondition(
            [hasInitState |-> TRUE, initState |-> Data(n), initC |-> <<>>,
             hasInitQ |-> FALSE, initQ |-> <<>>, hasInitVolume |-> FALSE,
             initVolume |-> Zero, yOld |-> Ramp(1, 1), yDotOld |-> Ramp(2, 1)],
            IF n < numDofs THEN junk ELSE Zero)

AppApplyInitialCondition ==
    \E nC \in Lengths(nComp), hasQ \in BOOLEAN, hasVol \in BOOLEAN,
       junk \in {Zero, R(7)} :
        \E nQ \in IF hasQ THEN Lengths(strideBound) ELSE {0} :
            ApplyInitialCondition(
                [hasInitState |-> FALSE, initState |-> <<>>, initC |-> Data(nC),
                 hasInitQ |-> hasQ, initQ |-> Data(nQ), hasInitVolume |-> hasVol,
                 initVolume |-> R(3), yOld |-> Ramp(1, 1), yDotOld |-> Ramp(2, 1)],
                IF nC >= nComp /\ hasQ /\ nQ < strideBound THEN junk ELSE Zero)

NextApply ==
    \/ AppConfigure
    \/ AppApplyInitialConditionZero
    \/ AppApplyInitialConditionState
    \/ AppApplyInitialCondition

SpecApply == Init /\ [][NextApply]_vars

---------------------------------------------------------------------------
(* Claims about the layout after configure *)

RECURSIVE CountSum(_, _)
(* count[0] + ... + count[n-1] *)
CountSum(count, n) == IF n = 0 THEN 0 ELSE CountSum(count, n - 1) + count[n - 1]

SquareIndex(n) == (0 .. n - 1) \X (0 .. n - 1)

(* C13: after configure, numDofs() = 2*nComp + strideBound + 1,            *)
(* numPureDofs() = nComp + strideBound + 1 = requiredADdirs() with         *)
(* strideBound the number of bound states, and _jac and _jacFact are       *)
(* square of size numPureDofs; without bound states numDofs = 2*nComp + 1  *)
(* and numPureDofs = nComp + 1                                             *)
C13_Dimensions ==
    configured =>
        LET total == CountSum(nBound, nComp)
        IN  /\ strideBound = total
            /\ numDofs = 2 * nComp + total + 1
            /\ numPureDofs = nComp + total + 1
            /\ requiredADdirs = numPureDofs
            /\ DOMAIN jac = SquareIndex(nComp + total + 1)
            /\ DOMAIN jacFact = SquareIndex(nComp + total + 1)
            /\ total = 0 => (numDofs = 2 * nComp + 1 /\ numPureDofs = nComp + 1)

(* three components with bound states on two of them *)
C13_Witness ==
    /\ op = "configure"
    /\ nComp = 3
    /\ nBound[0] = 1
    /\ nBound[2] = 1
    /\ numDofs = 9

(* C14 as stated: the offset table is a strictly increasing prefix sum of  *)
(* the counts for every admissible count vector, the default of no bound   *)
(* states included                                                         *)
C14_StrictlyIncreasing ==
    configured =>
        /\ boundOffset[0] = 0
        /\ \A i \in 1 .. nComp - 1 :
              /\ boundOffset[i] = boundOffset[i - 1] + nBound[i - 1]
              /\ boundOffset[i] > boundOffset[i - 1]
        /\ strideBound = boundOffset[nComp - 1] + nBound[nComp - 1]
        /\ strideBound = CountSum(nBound, nComp)

(* C14 amended: the offset table is the prefix sum of the counts and is    *)
(* nondecreasing, offset[i] > offset[i-1] exactly when component i-1 has   *)
(* bound states; strideBound is offset[last] + count[last], the sum of all *)
(* counts                                                                  *)
C14_PrefixSum ==
    configured =>
        /\ boundOffset[0] = 0
        /\ \A i \in 1 .. nComp - 1 :
              /\ boundOffset[i] = boundOffset[i - 1] + nBound[i - 1]
              /\ boundOffset[i] >= boundOffset[i - 1]
              /\ boundOffset[i] > boundOffset[i - 1] <=> nBound[i - 1] > 0
              /\ boundOffset[i] = CountSum(nBound, i)
        /\ strideBound = boundOffset[nComp - 1] + nBound[nComp - 1]
        /\ strideBound = CountSum(nBound, nComp)

(* three components, the first without bound states: two equal offsets     *)
(* followed by a larger one                                                *)
C14_Witness ==
    /\ op = "configure"
    /\ nComp = 3
    /\ nBound[0] = 0
    /\ nBound[1] = 1
    /\ boundOffset[1] = 0
    /\ boundOffset[2] = 1

---------------------------------------------------------------------------
(* Claims about applyInitialCondition *)

(* an initial-condition array that is read is shorter than what is copied  *)
(* from it                                                                 *)
Undersized(a) ==
    IF a.hasInitState THEN Len(a.initState) < numDofs
    ELSE \/ Len(a.initC) < nComp
         \/ a.hasInitQ /\ Len(a.initQ) < strideBound

(* C19: applying initial conditions with an undersized INIT_C, INIT_STATE  *)
(* or INIT_Q fails with an invalid-parameter error, reads nothing beyond   *)
(* the supplied data and does not write the state vector                   *)
C19_UndersizedFails ==
    (op = "applyInitialCondition" /\ Undersized(args)) =>
        /\ ret.threw
        /\ ~ret.oobRead
        /\ ret.y = args.yOld
        /\ ret.yDot = args.yDotOld

(* C19 for INIT_C alone, the one array whose size the code checks *)
C19_InitCChecked ==
    (op = "applyInitialCondition" /\ ~args.hasInitState /\ Len(args.initC) < nComp) =>
        /\ ret.threw
        /\ ~ret.oobRead
        /\ ret.y = args.yOld
        /\ ret.yDot = args.yDotOld

---------------------------------------------------------------------------
(* linalg::SparseMatrix: coordinate list _rows, _cols, _values of length   *)
(* capacity() whose first _curIdx entries are the stored ones              *)

MaxNnz == 3

(* indices of the vectors x and out *)
VecIdx == 0 .. 2

capacity == Len(rows)

numNonZero == curIdx

(* the matrix as a value *)
Matrix == [rows |-> rows, cols |-> cols, values |-> values, curIdx |-> curIdx]

(* cadet_assert(cond) stops the operation when cond does not hold *)
AssertionFails(cond) == ~cond

(* resize(nnz) *)
Resize(nnz) ==
    /\ rows' = [i \in 1 .. nnz |-> 0]
    /\ cols' = [i \in 1 .. nnz |-> 0]
    /\ values' = [i \in 1 .. nnz |-> Zero]
    /\ curIdx' = 0
    /\ op' = "resize"
    /\ args' = [nnz |-> nnz]
    /\ ret' = <<>>
    /\ UNCHANGED <<sensVars, cfgVars, curFlowRateFilter, flowVars, jacVars>>

(* a clear() that would leave the entries in place *)
ClearKeepingEntries ==
    /\ op' = "clear"
    /\ args' = [before |-> Matrix]
    /\ ret' = <<>>
    /\ UNCHANGED <<sparseVars, sensVars, cfgVars, curFlowRateFilter, flowVars, jacVars>>

(* clear() *)
Clear ==
    /\ curIdx' = 0
    /\ op' = "clear"
    /\ args' = [before |-> Matrix]
    /\ ret' = <<>>
    /\ UNCHANGED <<rows, cols, values, sensVars, cfgVars, curFlowRateFilter, flowVars, jacVars>>

(* addElement(row, col, val) *)
AddElement(row, col, val) ==
    /\ IF AssertionFails(curIdx < Len(rows))
       THEN /\ UNCHANGED sparseVars
            /\ ret' = [failed |-> TRUE]
       ELSE /\ rows' = [rows EXCEPT ![curIdx + 1] = row]
            /\ cols' = [cols EXCEPT ![curIdx + 1] = col]
            /\ values' = [values EXCEPT ![curIdx + 1] = val]
            /\ curIdx' = curIdx + 1
            /\ ret' = [failed |-> FALSE]
    /\ op' = "addElement"
    /\ args' = [row |-> row, col |-> col, val |-> val, before |-> Matrix]
    /\ UNCHANGED <<sensVars, cfgVars, curFlowRateFilter, flowVars, jacVars>>

(* the indices i (from 0) below _curIdx with _rows[i] == row and _cols[i] == col *)
Matches(row, col) == {i \in 0 .. curIdx - 1 : rows[i + 1] = row /\ cols[i + 1] = col}

(* a scan that would return the last matching entry *)
FoundIndexLast(row, col) == CHOOSE i \in Matches(row, col) : \A j \in Matches(row, col) : j <= i

(* the index at which the scan of operator() returns *)
FoundIndex(row, col) == CHOOSE i \in Matches(row, col) : \A j \in Matches(row, col) : i <= j

(* double& operator()(row, col), followed by the caller's write of val    *)
(* through the returned reference when write holds                         *)
Access(row, col, write, val) ==
    /\ IF Matches(row, col) # {}
       THEN LET i == FoundIndex(row, col)
            IN  /\ values' = IF write THEN [values EXCEPT ![i + 1] = val] ELSE values
                /\ UNCHANGED <<rows, cols, curIdx>>
                /\ ret' = [failed |-> FALSE, index |-> i, value |-> values[i + 1]]
       ELSE IF AssertionFails(curIdx < Len(rows))
       THEN /\ UNCHANGED sparseVars
            /\ ret' = [failed |-> TRUE, index |-> -1, value |-> Zero]
       ELSE /\ rows' = [rows EXCEPT ![curIdx + 1] = row]
            /\ cols' = [cols EXCEPT ![curIdx + 1] = col]
            /\ values' = [values EXCEPT ![curIdx + 1] = IF write THEN val ELSE Zero]
            /\ curIdx' = curIdx + 1
            /\ ret' = [failed |-> FALSE, index |-> curIdx, value |-> Zero]
    /\ op' = "access"
    /\ args' = [row |-> row, col |-> col, write |-> write, val |-> val, before |-> Matrix]
    /\ UNCHANGED <<sensVars, cfgVars, curFlowRateFilter, flowVars, jacVars>>

(* double operator()(row, col) const *)
ConstAccess(row, col) ==
    /\ ret' = [value |-> IF Matches(row, col) # {} THEN values[FoundIndex(row, col) + 1] ELSE Zero]
    /\ op' = "constAccess"
    /\ args' = [row |-> row, col |-> col]
    /\ UNCHANGED <<sparseVars, sensVars, cfgVars, curFlowRateFilter, flowVars, jacVars>>

RECURSIVE MultiplyVectorLoop(_, _, _, _, _)
(* out after the first n iterations of the loop of multiplyVector *)
MultiplyVectorLoop(n, x, alpha, beta, out) ==
    IF n = 0 THEN out
    ELSE LET o == MultiplyVectorLoop(n - 1, x, alpha, beta, out)
         IN  [o EXCEPT ![rows[n]] =
                 RAdd(RMul(RMul(alpha, values[n]), x[cols[n]]), RMul(beta, o[rows[n]]))]

(* multiplyVector(x, alpha, beta, out) *)
MultiplyVector(x, alpha, beta, out) ==
    /\ ret' = [out |-> MultiplyVectorLoop(curIdx, x, alpha, beta, out)]
    /\ op' = "multiplyVector"
    /\ args' = [x |-> x, alpha |-> alpha, beta |-> beta, out |-> out]
    /\ UNCHANGED <<sparseVars, sensVars, cfgVars, curFlowRateFilter, flowVars, jacVars>>

RECURSIVE MultiplyAddLoopOverwriting(_, _, _)
(* a loop in which a later entry of a row would overwrite the contribution *)
(* of the earlier ones                                                      *)
MultiplyAddLoopOverwriting(n, x, out) ==
    IF n = 0 THEN out
    ELSE LET o == MultiplyAddLoopOverwriting(n - 1, x, out)
         IN  [o EXCEPT ![rows[n]] = RAdd(out[rows[n]], RMul(values[n], x[cols[n]]))]

RECURSIVE MultiplyAddLoop(_, _, _)
(* out after the first n iterations of the loop of multiplyAdd *)
MultiplyAddLoop(n, x, out) ==
    IF n = 0 THEN out
    ELSE LET o == MultiplyAddLoop(n - 1, x, out)
         IN  [o EXCEPT ![rows[n]] = RAdd(o[rows[n]], RMul(values[n], x[cols[n]]))]

RECURSIVE MultiplySubtractLoop(_, _, _)
(* out after the first n iterations of the loop of multiplySubtract *)
MultiplySubtractLoop(n, x, out) ==
    IF n = 0 THEN out
    ELSE LET o == MultiplySubtractLoop(n - 1, x, out)
         IN  [o EXCEPT ![rows[n]] = RSub(o[rows[n]], RMul(values[n], x[cols[n]]))]

(* multiplyAdd(x, out) *)
MultiplyAdd(x, out) ==
    /\ ret' = [out |-> MultiplyAddLoop(curIdx, x, out)]
    /\ op' = "multiplyAdd"
    /\ args' = [x |-> x, out |-> out]
    /\ UNCHANGED <<sparseVars, sensVars, cfgVars, curFlowRateFilter, flowVars, jacVars>>

(* multiplySubtract(x, out); before is what out held ahead of the          *)
(* multiplyAdd whose result is passed as out, or out itself                *)
MultiplySubtract(x, out, before) ==
    /\ ret' = [out |-> MultiplySubtractLoop(curIdx, x, out)]
    /\ op' = "multiplySubtract"
    /\ args' = [x |-> x, out |-> out, before |-> before]
    /\ UNCHANGED <<sparseVars, sensVars, cfgVars, curFlowRateFilter, flowVars, jacVars>>

---------------------------------------------------------------------------
(* SparseMatrix driven by a caller *)

(* positions written by the caller: two columns of row 0 and one of row 1; *)
(* row 2 never receives an entry                                           *)
Positions == {<<0, 0>>, <<0, 1>>, <<1, 1>>}

VecX == [k \in VecIdx |-> R(2 * k + 3)]

VecOut == [k \in VecIdx |-> R(10 + k)]

SpResize == \E nnz \in 0 .. MaxNnz : Resize(nnz)

SpClear == Clear

SpAddElement == \E pos \in Positions : AddElement(pos[1], pos[2], Two)

SpAccess == \E pos \in Positions, write \in BOOLEAN : Access(pos[1], pos[2], write, R(5))

SpConstAccess == \E pos \in Positions : ConstAccess(pos[1], pos[2])

SpMultiplyVector == \E ab \in {<<Two, R(3)>>, <<One, One>>} : MultiplyVector(VecX, ab[1], ab[2], VecOut)

SpMultiplyAdd == MultiplyAdd(VecX, VecOut)

SpMultiplySubtract ==
    \/ MultiplySubtract(VecX, VecOut, VecOut)
    \/ /\ op = "multiplyAdd"
       /\ MultiplySubtract(args.x, ret.out, args.out)

NextSparse ==
    \/ SpResize
    \/ SpClear
    \/ SpAddElement
    \/ SpAccess
    \/ SpConstAccess
    \/ SpMultiplyVector
    \/ SpMultiplyAdd
    \/ SpMultiplySubtract

SpecSparse == Init /\ [][NextSparse]_vars

---------------------------------------------------------------------------
(* Claims about SparseMatrix *)

(* the stored entries of row r, as indices from 1 *)
EntriesOfRow(r) == {i \in 1 .. curIdx : rows[i] = r}

RECURSIVE RowProduct(_, _)
(* sum of value * x[col] over the stored entries with indices in S *)
RowProduct(S, x) ==
    IF S = {} THEN Zero
    ELSE LET i == CHOOSE j \in S : TRUE
         IN  RAdd(RMul(values[i], x[cols[i]]), RowProduct(S \ {i}, x))

(* C15: multiplyVector(x, alpha, beta, out) leaves in every out[r]         *)
(* alpha * (sum of value * x[col] over the stored entries of row r)        *)
(* + beta * (old out[r]), for rows with several entries and rows with none *)
C15_MultiplyVector ==
    op = "multiplyVector" =>
        \A r \in VecIdx :
            ret.out[r] = RAdd(RMul(args.alpha, RowProduct(EntriesOfRow(r), args.x)),
                              RMul(args.beta, args.out[r]))

(* C15 restricted to the rows that hold exactly one entry *)
C15_SingleEntryRows ==
    op = "multiplyVector" =>
        \A r \in VecIdx :
            Cardinality(EntriesOfRow(r)) = 1 =>
                ret.out[r] = RAdd(RMul(args.alpha, RowProduct(EntriesOfRow(r), args.x)),
                                  RMul(args.beta, args.out[r]))

(* C16: multiplyAdd(x, out) changes out[r] by the sum of v * x[c] over all *)
(* stored entries of row r, duplicates adding up, and leaves rows without  *)
(* entries alone; multiplySubtract changes out[r] by the negative of that  *)
(* sum, and applied to the result of multiplyAdd with the same x it        *)
(* restores out                                                            *)
C16_AddSubtract ==
    /\ op = "multiplyAdd" =>
          /\ \A r \in VecIdx :
                /\ ret.out[r] = RAdd(args.out[r], RowProduct(EntriesOfRow(r), args.x))
                /\ EntriesOfRow(r) = {} => ret.out[r] = args.out[r]
          /\ MultiplySubtractLoop(curIdx, args.x, ret.out) = args.out
    /\ op = "multiplySubtract" =>
          /\ \A r \in VecIdx :
                /\ ret.out[r] = RSub(args.out[r], RowProduct(EntriesOfRow(r), args.x))
                /\ EntriesOfRow(r) = {} => ret.out[r] = args.out[r]
          /\ args.before # args.out => ret.out = args.before

(* multiplySubtract undoing a multiplyAdd on a matrix that stores the same *)
(* position twice and a second column in the same row                      *)
C16_Witness ==
    /\ op = "multiplySubtract"
    /\ args.before # args.out
    /\ ret.out = args.before
    /\ \E i, j \in EntriesOfRow(0) : i # j /\ cols[i] = cols[j]
    /\ \E i, j \in EntriesOfRow(0) : cols[i] # cols[j]

(* the stored indices (from 0) of position (row, col) in the matrix m *)
MatchesIn(m, row, col) == {i \in 0 .. m.curIdx - 1 : m.rows[i + 1] = row /\ m.cols[i + 1] = col}

(* C17: operator()(row, col) returns the first stored entry of the         *)
(* position and leaves the count alone, otherwise (the list not being      *)
(* full) appends the one entry (row, col, 0.0) and returns it; another     *)
(* access of the same position then finds that entry and does not grow the *)
(* count, whereas addElement grows the count by one on every call          *)
C17_AccessOrAppend ==
    /\ (op = "access" /\ ~ret.failed) =>
          LET found == MatchesIn(args.before, args.row, args.col)
          IN  /\ found # {} =>
                    /\ ret.index \in found
                    /\ \A j \in found : ret.index <= j
                    /\ curIdx = args.before.curIdx
                    /\ rows = args.before.rows
                    /\ cols = args.before.cols
                    /\ ret.value = args.before.values[ret.index + 1]
              /\ found = {} =>
                    /\ curIdx = args.before.curIdx + 1
                    /\ ret.index = args.before.curIdx
                    /\ rows[curIdx] = args.row
                    /\ cols[curIdx] = args.col
                    /\ ret.value = Zero
                    /\ values[curIdx] = IF args.write THEN args.val ELSE Zero
              /\ Matches(args.row, args.col) # {}
              /\ FoundIndex(args.row, args.col) = ret.index
    /\ (op = "addElement" /\ ~ret.failed) =>
          /\ curIdx = args.before.curIdx + 1
          /\ rows[curIdx] = args.row
          /\ cols[curIdx] = args.col
          /\ values[curIdx] = args.val

(* an access that returns the first of two stored entries of one position  *)
C17_Witness ==
    /\ op = "access"
    /\ ~ret.failed
    /\ Cardinality(MatchesIn(args.before, args.row, args.col)) >= 2
    /\ curIdx = args.before.curIdx
    /\ \E j \in Matches(args.row, args.col) : j > ret.index /\ values[j + 1] # values[ret.index + 1]

(* C18: numNonZero() <= capacity() in every state; addElement and an       *)
(* appending operator() on a full list fail and store nothing; resize(n)   *)
(* gives capacity n and size zero; clear gives size zero and keeps the     *)
(* capacity                                                                *)
C18_WithinCapacity ==
    /\ numNonZero <= capacity
    /\ Len(cols) = capacity
    /\ Len(values) = capacity
    /\ (op = "addElement" /\ args.before.curIdx = Len(args.before.rows)) =>
          (ret.failed /\ Matrix = args.before)
    /\ (op = "access" /\ args.before.curIdx = Len(args.before.rows)
            /\ MatchesIn(args.before, args.row, args.col) = {}) =>
          (ret.failed /\ Matrix = args.before)
    /\ (op \in {"addElement", "access"} /\ ret.failed) =>
          args.before.curIdx = Len(args.before.rows)
    /\ op = "resize" => (capacity = args.nnz /\ numNonZero = 0)
    /\ op = "clear" =>
          /\ numNonZero = 0
          /\ capacity = Len(args.before.rows)
          /\ rows = args.before.rows
          /\ cols = args.before.cols
          /\ values = args.before.values

(* addElement refused on a full list of positive capacity *)
C18_Witness ==
    /\ op = "addElement"
    /\ ret.failed
    /\ capacity = MaxNnz
    /\ numNonZero = capacity

(* a cleared matrix that held capacity() entries *)
C18_WitnessClear ==
    /\ op = "clear"
    /\ args.before.curIdx = capacity
    /\ capacity > 0
    /\ numNonZero = 0

---------------------------------------------------------------------------
(* ad::prepareAdVectorSeedsForBandMatrix and ad::extractBandedJacobianFromAd *)

MaxRows == 4

MaxBand == 1

(* AD directions of the entries of adVec *)
BandDirections == 0 .. 2 * MaxBand + 2

(* number of directions of the band compression *)
BandStride(lowerBandwidth, upperBandwidth) == lowerBandwidth + upperBandwidth + 1

(* columns of the band window of row r in a matrix with nRows rows *)
BandWindow(r, nRows, lowerBandwidth, upperBandwidth) == {c \in 0 .. nRows - 1 : r - lowerBandwidth <= c /\ c <= r + upperBandwidth}

(* a seeding that would give every entry the diagonal direction *)
SeedDirectionDiagonalOnly(k, lowerBandwidth, upperBandwidth, diagDir) == diagDir

(* direction (before the offset) seeded on entry k: diagDir + k for the    *)
(* first entries, wrapping from diagDir + upperBandwidth around to         *)
(* diagDir - lowerBandwidth                                                *)
SeedDirection(k, lowerBandwidth, upperBandwidth, diagDir) == diagDir - lowerBandwidth + ((k + lowerBandwidth) % BandStride(lowerBandwidth, upperBandwidth))

(* adVec after prepareAdVectorSeedsForBandMatrix *)
PrepareSeeds(a) ==
    [k \in 0 .. a.rows - 1 |->
        [d \in BandDirections |->
            IF d = a.adDirOffset + SeedDirection(k, a.lowerBandwidth, a.upperBandwidth, a.diagDir)
            THEN One ELSE Zero]]

(* entry (r, c) of the banded Jacobian of the function evaluated on adVec *)
BandJ(r, c) == R(1 + 7 * r + c)

RECURSIVE BandRowDerivative(_, _, _, _)
(* derivative in direction d of sum of BandJ(r, c) * adVec[c] over c in S *)
BandRowDerivative(adVec, r, d, S) ==
    IF S = {} THEN Zero
    ELSE LET c == CHOOSE j \in S : TRUE
         IN  RAdd(RMul(BandJ(r, c), adVec[c][d]), BandRowDerivative(adVec, r, d, S \ {c}))

(* derivatives of the banded linear function applied to adVec *)
EvaluateBanded(a, adVec) ==
    [r \in 0 .. a.rows - 1 |->
        [d \in BandDirections |->
            BandRowDerivative(adVec, r, d, BandWindow(r, a.rows, a.lowerBandwidth, a.upperBandwidth))]]

(* the entries written by extractBandedJacobianFromAd *)
ExtractBanded(a, adRes) ==
    [rc \in {e \in (0 .. a.rows - 1) \X (0 .. a.rows - 1) :
                e[2] \in BandWindow(e[1], a.rows, a.lowerBandwidth, a.upperBandwidth)} |->
        adRes[rc[1]][a.adDirOffset + SeedDirection(rc[2], a.lowerBandwidth, a.upperBandwidth, a.diagDir)]]

BandPrepare ==
    \E nRows \in 1 .. MaxRows, lb \in 0 .. MaxBand, ub \in 0 .. MaxBand, off \in 0 .. 1 :
        \E diagDir \in lb .. lb + 1 :
            LET a == [rows |-> nRows, adDirOffset |-> off, lowerBandwidth |-> lb,
                      upperBandwidth |-> ub, diagDir |-> diagDir]
            IN  /\ op' = "prepareAdVectorSeedsForBandMatrix"
                /\ args' = a
                /\ ret' = [adVec |-> PrepareSeeds(a)]
                /\ UNCHANGED <<sparseVars, sensVars, cfgVars, curFlowRateFilter, flowVars, jacVars>>

BandEvaluate ==
    /\ op = "prepareAdVectorSeedsForBandMatrix"
    /\ op' = "evaluateBanded"
    /\ ret' = [adRes |-> EvaluateBanded(args, ret.adVec)]
    /\ UNCHANGED <<args, sparseVars, sensVars, cfgVars, curFlowRateFilter, flowVars, jacVars>>

BandExtract ==
    /\ op = "evaluateBanded"
    /\ op' = "extractBandedJacobianFromAd"
    /\ ret' = [mat |-> ExtractBanded(args, ret.adRes)]
    /\ UNCHANGED <<args, sparseVars, sensVars, cfgVars, curFlowRateFilter, flowVars, jacVars>>

NextBand ==
    \/ BandPrepare
    \/ BandEvaluate
    \/ BandExtract

SpecBand == Init /\ [][NextBand]_vars

---------------------------------------------------------------------------
(* Claims about band-compressed seeding *)

(* the directions in which entry k of adVec has a nonzero derivative *)
SeededDirections(adVec, k) == {d \in BandDirections : adVec[k][d] # Zero}

(* the direction in which entry k of adVec has derivative one *)
UnitDirection(adVec, k) == CHOOSE d \in BandDirections : adVec[k][d] = One

---------------------------------------------------------------------------
(* Claims about the volume DOF of consistent initialization *)

IsConsistentInitCall == op \in {"consistentInitialState", "consistentInitialTimeDerivative"}

(* C21: consistentInitialState and consistentInitialTimeDerivative take    *)
(* the zero-volume branch iff the last entry of the state vector, index    *)
(* 2*nComp + strideBound, is zero; consistentInitialTimeDerivative stores  *)
(* dV/dt = flowIn - flowOut - currentFlowFilter at that index of the time  *)
(* derivative and leaves the bound-state time derivatives unchanged        *)
C21_VolumeIsLastEntry ==
    /\ IsConsistentInitCall => (ret.zeroVolume <=> args.y[VolIdx] = Zero)
    /\ op = "consistentInitialTimeDerivative" =>
          /\ ret.yDot[VolIdx] = VDot
          /\ \A k \in 2 * nComp .. VolIdx - 1 : ret.yDot[k] = args.yDot[k]

(* C21 for the layouts without bound states, where 2*nComp is the last     *)
(* entry                                                                   *)
C21_NoBoundStates ==
    strideBound = 0 =>
        /\ IsConsistentInitCall => (ret.zeroVolume <=> args.y[VolIdx] = Zero)
        /\ op = "consistentInitialTimeDerivative" => ret.yDot[VolIdx] = VDot

---------------------------------------------------------------------------
(* Claims about the Jacobian toggle of residual() *)

(* the residual vector residual() writes for the inputs a when called with *)
(* updateJacobian = upd, the buffers holding a.resOld on entry             *)
ResidualWith(a, upd) ==
    CopyFromAd(ResidualAdRes(a.y, a.yDot, a.timeFactor, a.resOld, a.adDirOffset,
                             upd, a.paramSensitivity))

(* C22: for identical inputs the residual vector is the same whether the   *)
(* residual is evaluated with the Jacobian flag set or cleared             *)
C22_SameResidual ==
    op = "residual" => ret.res = ResidualWith(args, ~args.updateJacobian)

(* C22 for the layouts without bound states, where every residual entry is *)
(* assigned                                                                *)
C22_NoBoundStates ==
    (op = "residual" /\ strideBound = 0) =>
        ret.res = ResidualWith(args, ~args.updateJacobian)

(* C22, second part: a residual evaluation with the flag cleared leaves    *)
(* _jac and _factorizeJac unchanged                                        *)
C22_FlagClearedFrame ==
    [][(op' = "residual" /\ ~args'.updateJacobian) =>
            (jac' = jac /\ factorizeJac' = factorizeJac)]_vars

---------------------------------------------------------------------------
(* Every user of _jac after a Jacobian update: the configurations, flow   *)
(* rates and residual evaluations of the sensitivity runs, followed by    *)
(* linear solves and the sensitivity routines                              *)

JacLinearSolve == LinearSolve(Ramp(1, 2), Ramp(1, 1), Ramp(2, 3), One, TRUE)

JacResidualSensFwdCombine ==
    \E nP \in 0 .. 1 :
        ResidualSensFwdCombine(One, Ramp(1, 1), Ramp(2, 3), SensY(nP), SensYdot(nP),
                               SensAdRes(nP))

JacConsistentInitialSensitivity ==
    \E nP \in 0 .. 1 :
        ConsistentInitialSensitivity(One, Ramp(1, 1), Ramp(2, 3), SensY(nP),
                                     SensYdot(nP), SensAdRes(nP))

NextJac ==
    \/ SensConfigure
    \/ SensSetFlowRates
    \/ SensResidual
    \/ JacLinearSolve
    \/ JacResidualSensFwdCombine
    \/ JacConsistentInitialSensitivity

SpecJac == Init /\ [][NextJac]_vars

---------------------------------------------------------------------------
(* Claims about the writers of _jac *)

(* C23: once a Jacobian-updating residual evaluation has stored dF/dy,     *)
(* _jac equals that dF/dy after any sequence of linearSolve,               *)
(* residualSensFwdCombine and consistentInitialSensitivity calls           *)
C23_JacIsStateJacobian ==
    lastJac # <<>> => jac = lastJac

(* the calls that do leave _jac alone: a linearSolve that finds the flag   *)
(* clear, and the sensitivity routines called without parameters           *)
C23_CallsWithoutWrite ==
    [][ /\ (op' = "linearSolve" /\ ~factorizeJac) => jac' = jac
        /\ (op' = "residualSensFwdCombine" /\ Len(args'.yS) = 0) => jac' = jac
        /\ (op' = "consistentInitialSensitivity" /\ Len(args'.sensY) = 0) => jac' = jac
      ]_vars

---------------------------------------------------------------------------
(* Claims about the time-derivative Jacobian *)

(* the residual vector of residualImpl for state y and time derivative     *)
(* yDot, evaluated on a zeroed buffer                                      *)
ResidualAt(y, yDot, timeFactor) ==
    CopyFromAd(ResidualImpl(LiftVector(y, {}), TRUE, yDot, timeFactor,
                            LiftVector(ZeroVector(numDofs), {}), {}))

(* partial derivative of residual entry r with respect to yDot[c]: the     *)
(* residual is affine in yDot, so the derivative is the difference of the  *)
(* residuals at yDot + e_c and at yDot                                     *)
ResidualYdotDerivative(y, yDot, timeFactor, r, c) ==
    RSub(ResidualAt(y, [yDot EXCEPT ![c] = RAdd(@, One)], timeFactor)[r],
         ResidualAt(y, yDot, timeFactor)[r])

(* C24: the matrix assembled by addTimeDerivativeJacobian equals, entry    *)
(* for entry over the pure DOFs, the partial derivatives of the residual   *)
(* of residualImpl with respect to the time derivatives                    *)
C24_DerivativeJacobian ==
    (op = "residualSensFwdCombine" /\ Len(args.yS) > 0) =>
        \A r \in PureIdx : \A c \in PureIdx :
            jac[<<r, c>>] =
                ResidualYdotDerivative(args.y, args.yDot, args.timeFactor,
                                       nComp + r, nComp + c)

(* C24 for the tank rows of the layouts without bound states *)
C24_TankRowsNoBoundStates ==
    (op = "residualSensFwdCombine" /\ Len(args.yS) > 0 /\ strideBound = 0) =>
        \A r \in 0 .. nComp - 1 : \A c \in PureIdx :
            jac[<<r, c>>] =
                ResidualYdotDerivative(args.y, args.yDot, args.timeFactor,
                                       nComp + r, nComp + c)

(* C24 for the layouts without bound states at timeFactor = 1 *)
C24_UnitTimeFactorNoBoundStates ==
    (op = "residualSensFwdCombine" /\ Len(args.yS) > 0 /\ strideBound = 0
        /\ args.timeFactor = One) =>
        \A r \in PureIdx : \A c \in PureIdx :
            jac[<<r, c>>] =
                ResidualYdotDerivative(args.y, args.yDot, args.timeFactor,
                                       nComp + r, nComp + c)

---------------------------------------------------------------------------
(* Claims about linearSolve after a failed factorization *)

(* C25: linearSolve never returns 0 from a solve on a factorization that   *)
(* failed: once the factorization in a linearSolve call has failed, every  *)
(* linearSolve returns 1 until a residual evaluation with updateJacobian   *)
C25_FailureIsSticky ==
    (op = "linearSolve" /\ ret.solveMatState = "failed") => ret.code = 1

(* the call in which the factorization fails returns 1 *)
C25_FailingCallReturnsOne ==
    (op = "linearSolve" /\ ret.nFactorize = 1 /\ ~ret.factorizeOk) => ret.code = 1

(* a later linearSolve without a Jacobian update in between does not       *)
(* factorize again: it solves with the failed factorization, and its       *)
(* return code is the status of that solve                                 *)
C25_LaterCallSolvesOnFailedFactorization ==
    [][(op' = "linearSolve" /\ ~factorizeJac /\ jacFactState = "failed") =>
            /\ ret'.nFactorize = 0
            /\ ret'.nSolve = 1
            /\ jacFactState' = "failed"
            /\ ret'.code = (IF ret'.solveOk THEN 0 ELSE 1)]_vars

---------------------------------------------------------------------------
(* Section transitions, reconfiguration and the evaluations that read the  *)
(* current flow rate filter                                                *)

(* FLOWRATE_FILTER: absent, one value, or one value per section *)
FilterSchedules == {<<>>, <<R(1)>>, <<R(1), R(2)>>}

FilConfigure ==
    \E nc \in 1 .. MaxComp, filter \in FilterSchedules :
        Configure(nc, FALSE, [i \in 0 .. nc - 1 |-> 0], TRUE, filter # <<>>, filter, FALSE,
                  One, FALSE)

FilReconfigure ==
    \E filter \in FilterSchedules : Reconfigure(filter # <<>>, filter, FALSE, One)

FilNotify == \E secIdx \in 0 .. 1 : NotifyDiscontinuousSectionTransition(secIdx)

FilResidualPlain == ResidualPlain(Ramp(1, 1), TRUE, Ramp(2, 3), One, Ramp(0, 0))

NextFilter ==
    \/ FilConfigure
    \/ FilReconfigure
    \/ SensSetFlowRates
    \/ FilNotify
    \/ FilResidualPlain
    \/ InitConsistentInitialState
    \/ InitConsistentInitialTimeDerivative

SpecFilter == Init /\ [][NextFilter]_vars

---------------------------------------------------------------------------
(* Claims about the current flow rate filter *)

(* the schedule entry for section k: the single entry when the schedule    *)
(* has one value                                                           *)
ScheduleEntry(schedule, k) == IF Len(schedule) = 1 THEN schedule[1] ELSE schedule[k + 1]

(* C26: a section-transition notification for section k with a configured  *)
(* filter makes the current flow filter the schedule entry for k, and it   *)
(* keeps that value through every later step that is not a notification,   *)
(* a reconfigure that supplies the same schedule included; with no filter  *)
(* configured it is 0                                                      *)
C26_FilterFollowsSection ==
    [][ /\ (op' = "notifyDiscontinuousSectionTransition" /\ flowRateFilter' # <<>>) =>
                curFlowRateFilter' = ScheduleEntry(flowRateFilter', args'.secIdx)
        /\ (op' \notin {"notifyDiscontinuousSectionTransition", "configure"}
                /\ flowRateFilter' = flowRateFilter) =>
                curFlowRateFilter' = curFlowRateFilter
        /\ (configured' /\ flowRateFilter' = <<>> /\ flowRateFilter = <<>>) =>
                curFlowRateFilter' = Zero
      ]_vars

(* C26 without the reconfigure: the value set at a notification is kept by *)
(* every evaluation, and it is 0 when no filter has been configured        *)
C26_KeptByEvaluations ==
    [][ /\ (op' = "notifyDiscontinuousSectionTransition" /\ flowRateFilter' # <<>>) =>
                curFlowRateFilter' = ScheduleEntry(flowRateFilter', args'.secIdx)
        /\ op' \notin {"notifyDiscontinuousSectionTransition", "configure", "reconfigure"} =>
                curFlowRateFilter' = curFlowRateFilter
        /\ (configured' /\ flowRateFilter' = <<>> /\ flowRateFilter = <<>>) =>
                curFlowRateFilter' = Zero
      ]_vars

(* the evaluations read the current flow rate filter: the volume residual  *)
(* is dV/dt - flowIn + flowOut + filter, and consistent initialization     *)
(* stores dV/dt = flowIn - flowOut - filter                                *)
C26_EvaluationsUseCurrentFilter ==
    /\ op = "residualPlain" =>
          ret.res[VolIdx] = RAdd(RAdd(RSub(args.yDot[VolIdx], flowRateIn), flowRateOut),
                                 curFlowRateFilter)
    /\ op = "consistentInitialTimeDerivative" =>
          ret.yDot[VolIdx] = RSub(RSub(flowRateIn, flowRateOut), curFlowRateFilter)

====
